---- MODULE Spec2Model ----
(***************************************************************************)
(* State-machine model of the retrieval engine core of MIRCV-Project:      *)
(* the PForDelta codec (Utils/CompressionTools.py), the chunked posting    *)
(* list iterator (InvertedIndex/PostingList.py), the chunked compressed    *)
(* index and its file format (InvertedIndex/CompressedInvertedIndex.py)    *)
(* and the index merger (Index/InvertedIndex/Merger.py).                   *)
(*                                                                         *)
(* Python lists are sequences; Python positions are 0-based and are kept   *)
(* 0-based in the state (a sequence is read at position + 1).  bytes are   *)
(* sequences of numbers in 0..255.  A raised exception is a value of the   *)
(* "error" field of a result ("none" when the call returned).              *)
(***************************************************************************)
EXTENDS Integers, Sequences, FiniteSets, TLC

(***************************************************************************)
(* Bounds of the model.                                                    *)
(***************************************************************************)
\* longest (doc_ids, frequencies) pair handed to the codec
MaxLen == 3
\* largest doc_id of a posting list under iteration / in an index
MaxDoc == 4
\* largest chunk size C of a CompressedInvertedIndex
MaxChunkSize == 3

\* largest doc_id of the posting lists handed to _merge_compressed_postings
MaxMergeDoc == 3
\* most index paths handed to merge_multiple_compressed_indices
MaxIndexes == 4
\* most indexes of a merge that is followed to its end
MaxTournament == 5

\* largest doc_id handed to compress_and_add_postings
MaxIndexDoc == 3
\* largest chunk size of the index postings are added to
MaxIndexChunkSize == 2
\* most compress_and_add_postings calls on one index
MaxCalls == 3
\* the widest symbol of a blob handed to the decoder, in bytes, and the
\* longest payload
MaxWidth == 2
MaxPayload == 6
\* the lines of a collection file after its header, and the largest chunk
\* size of a loader or a builder
MaxLines == 3
MaxLoaderChunk == 3
MaxSample == 4
\* the documents of a collection that is queried, and the largest
\* max_results of a query
MaxQueryDoc == 3
MaxResults == 2
\* the largest DF of a term and the longest document handed to Scoring
MaxScoringDF == 2
MaxScoringLength == 2
MaxEvaluationQueries == 2

\* values the codec inputs are drawn from: one, two and three byte symbols
CodecDocIds == {1, 2, 200, 256, 70000}
CodecFreqs == {1, 2, 300}
\* term frequencies of the postings of posting lists and indexes
TFValues == {1, 2}
\* term frequencies of the posting lists handed to _merge_compressed_postings:
\* the sum of two of them may need a wider symbol than either
MergeFreqs == {1, 200}
\* the terms of the indexes
Terms == {"a", "bc"}
\* doc_ids of the postings of the indexes handed to the Merger
IndexDocIds == {1, 2}
\* the bytes of the blobs handed to the decoder
BlobBytes == {0, 1}

(***************************************************************************)
(* Generic helpers for Python lists.                                       *)
(***************************************************************************)
Min(a, b) == IF a < b THEN a ELSE b
Max(a, b) == IF a > b THEN a ELSE b

SetMin(S) == CHOOSE x \in S : \A y \in S : x <= y

\* sorted(S): the ascending list of the elements of a finite set of integers
RECURSIVE Sorted(_)
Sorted(S) == IF S = {} THEN <<>>
             ELSE LET m == SetMin(S) IN <<m>> \o Sorted(S \ {m})

\* s[a:b] of Python, a and b 0-based, clipped to the list
Slice(s, a, b) == SubSeq(s, a + 1, Min(b, Len(s)))

\* max(s, default=d)
RECURSIVE SeqMax(_, _)
SeqMax(s, d) == IF s = <<>> THEN d
                ELSE IF Len(s) = 1 THEN s[1]
                ELSE Max(s[1], SeqMax(Tail(s), d))

Range(s) == {s[i] : i \in 1..Len(s)}

StrictlyAscending(s) == \A i \in 1..(Len(s) - 1) : s[i] < s[i + 1]

(***************************************************************************)
(* CompressionTools: the PForDelta codec.                                  *)
(***************************************************************************)
\* int.bit_length()
RECURSIVE bit_length(_)
bit_length(n) == IF n = 0 THEN 0 ELSE 1 + bit_length(n \div 2)

\* int.to_bytes(w, byteorder='big'), for a value that fits w bytes
RECURSIVE to_bytes(_, _)
to_bytes(n, w) == IF w = 0 THEN <<>>
                  ELSE Append(to_bytes(n \div 256, w - 1), n % 256)

\* int.from_bytes(b, byteorder='big')
RECURSIVE from_bytes(_)
from_bytes(b) == IF b = <<>> THEN 0
                 ELSE from_bytes(SubSeq(b, 1, Len(b) - 1)) * 256 + b[Len(b)]

\* the loop "for v in values: compressed_bytes.extend(v.to_bytes(w, 'big'))"
RECURSIVE pack_symbols(_, _)
pack_symbols(values, w) ==
    IF values = <<>> THEN <<>>
    ELSE to_bytes(values[1], w) \o pack_symbols(Tail(values), w)

\* the loop "for i in range(0, len(data), w): append(from_bytes(data[i:i+w]))";
\* the last group is shorter than w when len(data) is no multiple of w
RECURSIVE unpack_symbols(_, _)
unpack_symbols(data, w) ==
    IF data = <<>> THEN <<>>
    ELSE <<from_bytes(Slice(data, 0, w))>>
         \o unpack_symbols(Slice(data, w, Len(data)), w)

\* deltas = [doc_ids[0]] + [doc_ids[i] - doc_ids[i - 1] ...]
delta_encode(doc_ids) ==
    [i \in 1..Len(doc_ids) |->
        IF i = 1 THEN doc_ids[1] ELSE doc_ids[i] - doc_ids[i - 1]]

\* a mutant of prefix_sum: the deltas are returned as the doc_ids
deltas_as_doc_ids(deltas) == deltas

\* doc_ids = [deltas[0]]; for delta in deltas[1:]: doc_ids.append(doc_ids[-1] + delta)
RECURSIVE prefix_sum(_)
prefix_sum(deltas) ==
    IF Len(deltas) <= 1 THEN deltas
    ELSE LET front == prefix_sum(SubSeq(deltas, 1, Len(deltas) - 1))
         IN Append(front, front[Len(front)] + deltas[Len(deltas)])

\* bit_width = (max(max_bits, max_bits_freq) + 7) // 8
bit_width_of(deltas, frequencies) ==
    (Max(SeqMax([i \in 1..Len(deltas) |-> bit_length(deltas[i])], 1),
         SeqMax([i \in 1..Len(frequencies) |-> bit_length(frequencies[i])], 1))
     + 7) \div 8

\* p_for_delta_compress(doc_ids, frequencies), lists of equal length
p_for_delta_compress(doc_ids, frequencies) ==
    IF Len(doc_ids) = 0 THEN <<>>
    ELSE LET deltas == delta_encode(doc_ids)
             bit_width == bit_width_of(deltas, frequencies)
         IN <<bit_width>> \o pack_symbols(deltas, bit_width)
                          \o pack_symbols(frequencies, bit_width)

Decoded(e, d, f) == [error |-> e, doc_ids |-> d, frequencies |-> f]

\* p_for_delta_decompress(data)
p_for_delta_decompress(data) ==
    IF Len(data) = 0 THEN Decoded("none", <<>>, <<>>)
    ELSE LET bit_width == data[1]
             rest == Tail(data)
             half_length == Len(rest) \div 2
             delta_data == Slice(rest, 0, half_length)
             freq_data == Slice(rest, half_length, Len(rest))
         IN IF bit_width = 0
            THEN Decoded("ValueError", <<>>, <<>>)  \* range() arg 3 is zero
            ELSE LET deltas == unpack_symbols(delta_data, bit_width)
                     frequencies == unpack_symbols(freq_data, bit_width)
                 IN IF Len(deltas) # Len(frequencies)
                    THEN Decoded("ValueError", <<>>, <<>>)
                    ELSE IF Len(deltas) = 0
                    THEN Decoded("IndexError", <<>>, <<>>)  \* deltas[0]
                    ELSE Decoded("none", prefix_sum(deltas), frequencies)

(***************************************************************************)
(* CompressedInvertedIndex._create_posting_chunks and PostingList.         *)
(***************************************************************************)
\* range(0, n, step) as the list of its values
RECURSIVE range_from(_, _, _)
range_from(i, n, step) ==
    IF i >= n THEN <<>> ELSE <<i>> \o range_from(i + step, n, step)

ChunkedPostings(c, b) == [chunks |-> c, boundaries |-> b]

\* a mutant of the boundary of a chunk: (first doc_id, first doc_id)
boundary_first_only(chunk_doc_ids) == <<chunk_doc_ids[1], chunk_doc_ids[1]>>

\* boundaries.append((chunk_doc_ids[0], chunk_doc_ids[-1]))
chunk_boundary(chunk_doc_ids) ==
    <<chunk_doc_ids[1], chunk_doc_ids[Len(chunk_doc_ids)]>>

\* _create_posting_chunks(doc_ids, frequencies) of an index of chunk size C
_create_posting_chunks(doc_ids, frequencies, C) ==
    LET starts == range_from(0, Len(doc_ids), C)
    IN ChunkedPostings(
         [k \in 1..Len(starts) |->
             p_for_delta_compress(Slice(doc_ids, starts[k], starts[k] + C),
                                  Slice(frequencies, starts[k], starts[k] + C))],
         [k \in 1..Len(starts) |->
             chunk_boundary(Slice(doc_ids, starts[k], starts[k] + C))])

Posting(d, p) == [doc_id |-> d, payload |-> p]
\* Python's None where a Posting is expected
None == Posting(-1, -1)
\* Python's None where a chunk index is expected
NoChunk == -1

\* the state of a PostingList iterator
IterState(ci, pi, ids, fs) ==
    [current_chunk_index |-> ci, current_posting_index |-> pi,
     current_chunk_doc_ids |-> ids, current_chunk_frequencies |-> fs]

\* a mutant of _decompress_chunk: current_posting_index is left as it was
decompress_chunk_keep_position(chunks, st, chunk_index) ==
    IF 0 <= chunk_index /\ chunk_index < Len(chunks)
    THEN LET d == p_for_delta_decompress(chunks[chunk_index + 1])
         IN IterState(chunk_index, st.current_posting_index, d.doc_ids,
                      d.frequencies)
    ELSE st

\* _decompress_chunk(chunk_index) on iterator state st over the chunks
_decompress_chunk(chunks, st, chunk_index) ==
    IF 0 <= chunk_index /\ chunk_index < Len(chunks)
    THEN LET d == p_for_delta_decompress(chunks[chunk_index + 1])
         IN IterState(chunk_index, 0, d.doc_ids, d.frequencies)
    ELSE st

\* the while loop of _find_chunk_for_doc_id: the chunk whose range holds
\* the target, or NoChunk when left > right
RECURSIVE binary_search(_, _, _, _)
binary_search(boundaries, target, left, right) ==
    IF left > right THEN NoChunk
    ELSE LET mid == (left + right) \div 2
             start_doc_id == boundaries[mid + 1][1]
             end_doc_id == boundaries[mid + 1][2]
         IN IF start_doc_id <= target /\ target <= end_doc_id THEN mid
            ELSE IF target < start_doc_id
            THEN binary_search(boundaries, target, left, mid - 1)
            ELSE binary_search(boundaries, target, mid + 1, right)

\* the trailing for loop: the first chunk that starts after the target
first_chunk_after(boundaries, target) ==
    LET after == {i \in 0..(Len(boundaries) - 1) : target < boundaries[i + 1][1]}
    IN IF after = {} THEN NoChunk ELSE SetMin(after)

\* a mutant of _find_chunk_for_doc_id: no fallback to the next chunk
find_chunk_exact_only(boundaries, target) ==
    IF Len(boundaries) = 0 THEN NoChunk
    ELSE binary_search(boundaries, target, 0, Len(boundaries) - 1)

\* _find_chunk_for_doc_id(target_doc_id)
_find_chunk_for_doc_id(boundaries, target) ==
    IF Len(boundaries) = 0 THEN NoChunk
    ELSE LET found == binary_search(boundaries, target, 0, Len(boundaries) - 1)
         IN IF found # NoChunk THEN found
            ELSE first_chunk_after(boundaries, target)

\* a mutant of scan_chunk: the comparison of the scan is flipped
scan_chunk_leq(ids, pi, target) ==
    LET hits == {i \in pi..(Len(ids) - 1) : ids[i + 1] <= target}
    IN IF hits = {} THEN Max(pi, Len(ids)) ELSE SetMin(hits)

\* the while loop of next_geq: the first position >= pi of the cached chunk
\* whose doc_id is >= target, or the length of the chunk when there is none
scan_chunk(ids, pi, target) ==
    LET hits == {i \in pi..(Len(ids) - 1) : ids[i + 1] >= target}
    IN IF hits = {} THEN Max(pi, Len(ids)) ELSE SetMin(hits)

NextGeqResult(r, st) == [returned |-> r, state |-> st]

\* next_geq, "If we reach end of chunk, try next chunk"
try_next_chunk(chunks, st, target_chunk) ==
    IF target_chunk + 1 < Len(chunks)
    THEN LET nx == _decompress_chunk(chunks, st, target_chunk + 1)
         IN IF Len(nx.current_chunk_doc_ids) > 0
            THEN NextGeqResult(Posting(nx.current_chunk_doc_ids[1],
                                       nx.current_chunk_frequencies[1]), nx)
            ELSE NextGeqResult(None, nx)
    ELSE NextGeqResult(None, st)

\* next_geq, "Search within the current chunk" and what follows
search_chunk(chunks, st, target, target_chunk) ==
    LET pos == scan_chunk(st.current_chunk_doc_ids,
                          st.current_posting_index, target)
        at == [st EXCEPT !.current_posting_index = pos]
    IN IF pos < Len(st.current_chunk_doc_ids)
       THEN NextGeqResult(Posting(st.current_chunk_doc_ids[pos + 1],
                                  st.current_chunk_frequencies[pos + 1]), at)
       ELSE try_next_chunk(chunks, at, target_chunk)

\* a mutant of next_geq: a call with a target above the last doc_id rewinds
\* the iterator
next_geq_rewinding(chunks, boundaries, st, target) ==
    IF Len(chunks) = 0 THEN NextGeqResult(None, st)
    ELSE LET found == _find_chunk_for_doc_id(boundaries, target)
         IN IF found = NoChunk
            THEN NextGeqResult(None, _decompress_chunk(chunks, st, 0))
            ELSE search_chunk(chunks,
                              IF found # st.current_chunk_index
                              THEN _decompress_chunk(chunks, st, found)
                              ELSE st,
                              target, found)

\* next_geq(target_doc_id) on iterator state st
next_geq(chunks, boundaries, st, target) ==
    IF Len(chunks) = 0 THEN NextGeqResult(None, st)
    ELSE LET found == _find_chunk_for_doc_id(boundaries, target)
         IN IF found = NoChunk /\ Len(boundaries) > 0
               /\ target > boundaries[Len(boundaries)][2]
            THEN NextGeqResult(None, st)
            ELSE LET target_chunk == IF found = NoChunk THEN 0 ELSE found
                     switched == IF target_chunk # st.current_chunk_index
                                 THEN _decompress_chunk(chunks, st, target_chunk)
                                 ELSE st
                 IN search_chunk(chunks, switched, target, target_chunk)

\* PostingList.__init__
PostingList_init(chunks) ==
    LET empty == IterState(0, 0, <<>>, <<>>)
    IN IF Len(chunks) > 0 THEN _decompress_chunk(chunks, empty, 0) ELSE empty

\* a mutant of reset: the first chunk is not decoded again
reset_indexes_only(chunks, st) ==
    [st EXCEPT !.current_chunk_index = 0, !.current_posting_index = 0]

\* PostingList.reset
reset(chunks, st) ==
    LET zero == [st EXCEPT !.current_chunk_index = 0,
                           !.current_posting_index = 0]
    IN IF Len(chunks) > 0 THEN _decompress_chunk(chunks, zero, 0) ELSE zero


(***************************************************************************)
(* Merger.  Its indexes keep one blob per term: get_compressed_postings    *)
(* and add_compressed_postings belong to the CompressedInvertedIndex       *)
(* variant the Merger imports (Index/InvertedIndex), of which only the     *)
(* callers are at hand.  An index is a function from its terms to blobs.   *)
(***************************************************************************)
EmptyIndex == [t \in {} |-> <<>>]

\* index.get_terms()
get_terms(index) == DOMAIN index

\* index.get_compressed_postings(term): the blob, empty for a missing term
get_compressed_postings(index, term) ==
    IF term \in DOMAIN index THEN index[term] ELSE <<>>

\* index.add_compressed_postings(term, blob) for a term not yet in the index
add_compressed_postings(index, term, blob) ==
    [t \in DOMAIN index \cup {term} |-> IF t = term THEN blob ELSE index[t]]

\* the defaultdict(int) filled by "for doc_id, freq in zip(...): d[doc_id] += freq"
RECURSIVE sum_frequencies(_, _, _)
sum_frequencies(doc_ids, frequencies, doc_id) ==
    IF doc_ids = <<>> \/ frequencies = <<>> THEN 0
    ELSE (IF doc_ids[1] = doc_id THEN frequencies[1] ELSE 0)
         + sum_frequencies(Tail(doc_ids), Tail(frequencies), doc_id)

\* a mutant of merged_frequency: the frequency of the first list wins
merged_frequency_first(d1, d2, doc_id) ==
    IF doc_id \in Range(d1.doc_ids)
    THEN sum_frequencies(d1.doc_ids, d1.frequencies, doc_id)
    ELSE sum_frequencies(d2.doc_ids, d2.frequencies, doc_id)

\* merged_frequencies[doc_id] after both loops
merged_frequency(d1, d2, doc_id) ==
    sum_frequencies(d1.doc_ids, d1.frequencies, doc_id)
    + sum_frequencies(d2.doc_ids, d2.frequencies, doc_id)

\* a mutant of _merge_compressed_postings: the first early return hands
\* back the empty list
merge_postings_wrong_return(postings1, postings2) ==
    IF Len(postings1) = 0 THEN postings1
    ELSE IF Len(postings2) = 0 THEN postings1
    ELSE LET d1 == p_for_delta_decompress(postings1)
             d2 == p_for_delta_decompress(postings2)
             merged_doc_ids == Sorted(Range(d1.doc_ids) \cup Range(d2.doc_ids))
         IN p_for_delta_compress(
                merged_doc_ids,
                [i \in 1..Len(merged_doc_ids) |->
                    merged_frequency(d1, d2, merged_doc_ids[i])])

\* _merge_compressed_postings(postings1, postings2), for blobs that
\* decompress without error
_merge_compressed_postings(postings1, postings2) ==
    IF Len(postings1) = 0 THEN postings2
    ELSE IF Len(postings2) = 0 THEN postings1
    ELSE LET d1 == p_for_delta_decompress(postings1)
             d2 == p_for_delta_decompress(postings2)
             merged_doc_ids == Sorted(Range(d1.doc_ids) \cup Range(d2.doc_ids))
         IN p_for_delta_compress(
                merged_doc_ids,
                [i \in 1..Len(merged_doc_ids) |->
                    merged_frequency(d1, d2, merged_doc_ids[i])])

\* the loop of _merge_two_indices over the terms still to do
RECURSIVE merge_terms(_, _, _, _)
merge_terms(merged_index, todo, index1, index2) ==
    IF todo = {} THEN merged_index
    ELSE LET term == CHOOSE t \in todo : TRUE
             merged_postings ==
                 _merge_compressed_postings(
                     get_compressed_postings(index1, term),
                     get_compressed_postings(index2, term))
         IN merge_terms(IF Len(merged_postings) > 0
                        THEN add_compressed_postings(merged_index, term,
                                                     merged_postings)
                        ELSE merged_index,
                        todo \ {term}, index1, index2)

\* a mutant of _merge_two_indices: only the terms of the first index
merge_first_terms_only(index1, index2) ==
    merge_terms(EmptyIndex, get_terms(index1), index1, index2)

\* _merge_two_indices(index1, index2)
_merge_two_indices(index1, index2) ==
    merge_terms(EmptyIndex, get_terms(index1) \cup get_terms(index2),
                index1, index2)

\* the futures submitted for one level: one per pair (indices[i], indices[i+1])
\* for i in range(0, len(indices) - 1, 2)
submit_pairs(indices) ==
    LET starts == range_from(0, Len(indices) - 1, 2)
    IN [k \in 1..Len(starts) |->
           _merge_two_indices(indices[starts[k] + 1], indices[starts[k] + 2])]

\* a mutant of close_level: the odd index out is dropped
close_level_drop_odd(indices, merged_results) == merged_results

\* "if len(indices) % 2 == 1: merged_results.append(indices[-1])"
close_level(indices, merged_results) ==
    IF Len(indices) % 2 = 1
    THEN Append(merged_results, indices[Len(indices)])
    ELSE merged_results

(***************************************************************************)
(* CompressedInvertedIndex (chunked).  _compressed_index is a dict: a      *)
(* list of entries in insertion order, one per term.  is_tuple tells that  *)
(* chunks and boundaries were rebound to the tuples that zip returns.       *)
(***************************************************************************)
Entry(t, c, b, tup) ==
    [term |-> t, chunks |-> c, boundaries |-> b, is_tuple |-> tup]

\* the position of a term in the dict, 0 when it is no key
key_position(dict, term) ==
    IF \E i \in 1..Len(dict) : dict[i].term = term
    THEN CHOOSE i \in 1..Len(dict) : dict[i].term = term
    ELSE 0

\* dict[term] = entry: in place for a key, at the end for a new key
dict_set(dict, entry) ==
    LET i == key_position(dict, entry.term)
    IN IF i = 0 THEN Append(dict, entry) ELSE [dict EXCEPT ![i] = entry]

\* get_terms()
index_terms(dict) == {dict[i].term : i \in 1..Len(dict)}

\* pairs.sort(key=lambda x: x[0][0]): one pair put in its place in a sorted
\* list, behind the pairs of the same key (the sort is stable)
RECURSIVE insert_pair(_, _)
insert_pair(sorted, pair) ==
    IF sorted = <<>> THEN <<pair>>
    ELSE IF sorted[Len(sorted)][1][1] <= pair[1][1] THEN Append(sorted, pair)
    ELSE Append(insert_pair(SubSeq(sorted, 1, Len(sorted) - 1), pair),
                sorted[Len(sorted)])

RECURSIVE sort_pairs(_)
sort_pairs(pairs) ==
    IF pairs = <<>> THEN <<>>
    ELSE insert_pair(sort_pairs(SubSeq(pairs, 1, Len(pairs) - 1)),
                     pairs[Len(pairs)])

\* "if existing.boundaries[-2][0] > chunked_postings.boundaries[0][0]", read
\* after the new boundaries were appended to existing.boundaries
needs_sort(boundaries, new_boundaries) ==
    boundaries[Len(boundaries) - 1][1] > new_boundaries[1][1]

AddResult(e, d) == [error |-> e, index |-> d]

\* the branch "if term in self._compressed_index" of compress_and_add_postings
merge_with_existing(dict, existing, chunked_postings) ==
    IF existing.is_tuple
    THEN AddResult("AttributeError", dict)  \* a tuple has no extend
    ELSE LET chunks == existing.chunks \o chunked_postings.chunks
             boundaries == existing.boundaries \o chunked_postings.boundaries
             extended == Entry(existing.term, chunks, boundaries, FALSE)
         IN IF Len(boundaries) < 2 \/ Len(chunked_postings.boundaries) = 0
            THEN AddResult("IndexError", dict_set(dict, extended))
            ELSE IF needs_sort(boundaries, chunked_postings.boundaries)
            THEN LET pairs == sort_pairs([i \in 1..Len(boundaries) |->
                                             <<boundaries[i], chunks[i]>>])
                 IN AddResult("none",
                        dict_set(dict,
                            Entry(existing.term,
                                  [i \in 1..Len(pairs) |-> pairs[i][2]],
                                  [i \in 1..Len(pairs) |-> pairs[i][1]],
                                  TRUE)))
            ELSE AddResult("none", dict_set(dict, extended))

\* compress_and_add_postings(term, doc_ids, frequencies) on an index of
\* chunk size C
compress_and_add_postings(dict, C, term, doc_ids, frequencies) ==
    LET chunked_postings == _create_posting_chunks(doc_ids, frequencies, C)
        i == key_position(dict, term)
    IN IF i # 0
       THEN merge_with_existing(dict, dict[i], chunked_postings)
       ELSE AddResult("none",
                dict_set(dict, Entry(term, chunked_postings.chunks,
                                     chunked_postings.boundaries, FALSE)))

\* the loop of get_uncompressed_postings over the chunks
RECURSIVE decompress_chunks(_)
decompress_chunks(chunks) ==
    IF chunks = <<>> THEN Decoded("none", <<>>, <<>>)
    ELSE LET front == decompress_chunks(SubSeq(chunks, 1, Len(chunks) - 1))
             d == p_for_delta_decompress(chunks[Len(chunks)])
         IN IF front.error # "none" THEN front
            ELSE IF d.error # "none" THEN d
            ELSE Decoded("none", front.doc_ids \o d.doc_ids,
                         front.frequencies \o d.frequencies)

\* get_uncompressed_postings(term): the list of Posting objects
get_uncompressed_postings(dict, term) ==
    LET i == key_position(dict, term)
    IN IF i = 0 THEN <<>>
       ELSE LET d == decompress_chunks(dict[i].chunks)
            IN [k \in 1..Min(Len(d.doc_ids), Len(d.frequencies)) |->
                   Posting(d.doc_ids[k], d.frequencies[k])]

(***************************************************************************)
(* The index file: struct.pack / struct.unpack with the native formats     *)
(* "H" (2 bytes) and "I" (4 bytes), least significant byte first.          *)
(***************************************************************************)
\* struct.pack("H", n) / struct.pack("I", n), for a value that fits
RECURSIVE pack_native(_, _)
pack_native(n, w) ==
    IF w = 0 THEN <<>> ELSE <<n % 256>> \o pack_native(n \div 256, w - 1)

\* a mutant of unpack_native: the bytes are read most significant first
unpack_big_endian(b) == from_bytes(b)

\* struct.unpack of a buffer of the full size
RECURSIVE unpack_native(_)
unpack_native(b) ==
    IF b = <<>> THEN 0 ELSE b[1] + 256 * unpack_native(Tail(b))

\* the terms a file can name: the terms and their prefixes
TermUniverse == {"", "a", "b", "bc"}

\* term.encode('utf-8')
utf8_encode(term) ==
    IF term = "a" THEN <<97>>
    ELSE IF term = "b" THEN <<98>>
    ELSE IF term = "bc" THEN <<98, 99>>
    ELSE <<>>

\* bytes.decode('utf-8'), "?" for the bytes of no term of the universe
utf8_decode(b) ==
    IF \E t \in TermUniverse : utf8_encode(t) = b
    THEN CHOOSE t \in TermUniverse : utf8_encode(t) = b
    ELSE "?"

RECURSIVE write_boundaries(_)
write_boundaries(boundaries) ==
    IF boundaries = <<>> THEN <<>>
    ELSE pack_native(boundaries[1][1], 4) \o pack_native(boundaries[1][2], 4)
         \o write_boundaries(Tail(boundaries))

RECURSIVE write_chunks(_)
write_chunks(chunks) ==
    IF chunks = <<>> THEN <<>>
    ELSE pack_native(Len(chunks[1]), 4) \o chunks[1] \o write_chunks(Tail(chunks))

\* the record write_compressed_index_to_file writes for one term
write_record(entry) ==
    pack_native(Len(utf8_encode(entry.term)), 2) \o utf8_encode(entry.term)
    \o pack_native(Len(entry.chunks), 4)
    \o write_boundaries(entry.boundaries)
    \o write_chunks(entry.chunks)

\* write_compressed_index_to_file: the bytes of the file
RECURSIVE write_compressed_index_to_file(_)
write_compressed_index_to_file(dict) ==
    IF dict = <<>> THEN <<>>
    ELSE write_record(dict[1]) \o write_compressed_index_to_file(Tail(dict))

\* f.read(n) at position pos: at most n bytes, fewer at the end of the file
file_read(file, pos, n) == SubSeq(file, pos + 1, Min(pos + n, Len(file)))

ReadResult(e, v, p) == [error |-> e, value |-> v, pos |-> p]

\* "for _ in range(num_chunks): start_id, end_id = struct.unpack('II', f.read(8))"
RECURSIVE read_boundaries(_, _, _, _)
read_boundaries(file, pos, n, boundaries) ==
    IF n = 0 THEN ReadResult("none", boundaries, pos)
    ELSE LET b == file_read(file, pos, 8)
         IN IF Len(b) < 8 THEN ReadResult("struct.error", boundaries, pos)
            ELSE read_boundaries(file, pos + 8, n - 1,
                     Append(boundaries,
                            <<unpack_native(SubSeq(b, 1, 4)),
                              unpack_native(SubSeq(b, 5, 8))>>))

\* "for _ in range(num_chunks): chunk_length = ...; chunk = f.read(chunk_length)"
RECURSIVE read_chunks(_, _, _, _)
read_chunks(file, pos, n, chunks) ==
    IF n = 0 THEN ReadResult("none", chunks, pos)
    ELSE LET b == file_read(file, pos, 4)
         IN IF Len(b) < 4 THEN ReadResult("struct.error", chunks, pos)
            ELSE LET chunk == file_read(file, pos + 4, unpack_native(b))
                 IN read_chunks(file, pos + 4 + Len(chunk), n - 1,
                                Append(chunks, chunk))

LoadResult(e, d) == [error |-> e, index |-> d]

\* the while loop of load_compressed_index_to_memory from position pos
RECURSIVE load_records(_, _, _)
load_records(file, pos, dict) ==
    LET term_length_bytes == file_read(file, pos, 2)
    IN IF Len(term_length_bytes) = 0 THEN LoadResult("none", dict)
       ELSE IF Len(term_length_bytes) < 2 THEN LoadResult("struct.error", dict)
       ELSE LET term_bytes == file_read(file, pos + 2,
                                        unpack_native(term_length_bytes))
                at == pos + 2 + Len(term_bytes)
                count == file_read(file, at, 4)
            IN IF Len(count) < 4 THEN LoadResult("struct.error", dict)
               ELSE LET bs == read_boundaries(file, at + 4,
                                              unpack_native(count), <<>>)
                    IN IF bs.error # "none" THEN LoadResult(bs.error, dict)
                       ELSE LET cs == read_chunks(file, bs.pos,
                                                  unpack_native(count), <<>>)
                            IN IF cs.error # "none"
                               THEN LoadResult(cs.error, dict)
                               ELSE load_records(file, cs.pos,
                                        dict_set(dict,
                                            Entry(utf8_decode(term_bytes),
                                                  cs.value, bs.value, FALSE)))

\* load_compressed_index_to_memory(filename)
load_compressed_index_to_memory(file) == load_records(file, 0, <<>>)

(***************************************************************************)
(* State.                                                                  *)
(***************************************************************************)
VARIABLES
    \* codec round trip: the input lists, the blob, the decoded result
    c_doc_ids, c_frequencies, c_data, c_result, c_pc,
    \* PostingList: the object's fields
    compressed_chunks, chunk_boundaries,
    current_chunk_index, current_posting_index,
    current_chunk_doc_ids, current_chunk_frequencies,
    \* PostingList: the postings the chunks were built from, the target and
    \* the result of the last next_geq call (pl_target = -1: no call yet),
    \* the largest doc_id the calls before the last one returned, and
    \* whether the targets so far were non-decreasing with no reset between
    pl_doc_ids, pl_frequencies, pl_target, pl_returned, pl_earlier,
    pl_ascending,
    \* PostingList: the method called last ("" before any call)
    pl_last,
    \* _merge_compressed_postings: the posting lists the two blobs encode,
    \* the blobs, the blob returned
    mp_list1, mp_list2, postings1, postings2, merged_postings, mp_pc,
    \* _merge_two_indices: three indexes and their merges in both groupings
    index_A, index_B, index_C, mi_AB, mi_BA, mi_BC, mi_AB_C, mi_A_BC, mi_pc,
    \* merge_multiple_compressed_indices: the index stored at each path, the
    \* local variables indices, futures (the result of each, and the set of
    \* those not yet yielded by as_completed) and merged_results, the value
    \* returned, and whether a future was yielded before an earlier one
    index_paths, indices, futures, mm_pending, merged_results, mm_result,
    mm_out_of_order, mm_pc,
    \* CompressedInvertedIndex: the object's fields
    chunk_size, _compressed_index,
    \* CompressedInvertedIndex: the last compress_and_add_postings call and
    \* its error, the number of calls, per term the postings handed to the
    \* calls and the doc_id ranges of the calls, whether a call had no
    \* postings, the file written, the index at that time, the load result
    idx_last, idx_error, idx_calls, idx_added, idx_ranges, idx_empty_call,
    idx_file, idx_written, idx_loaded, idx_pc,
    \* CollectionLoader: the lines of the file after the header (a doc_id, or
    \* 0 for a line that is dropped), chunk_size and _total_docs of the
    \* object, the locals of the process_chunks generator and the chunks it
    \* yielded
    collection, ld_chunk_size, _total_docs, total_lines, start, ld_yielded,
    ld_pc,
    \* what the last call on the loader returned
    ld_returned,
    \* InvertedIndexBuilder: the tokens the preprocessor gives for each
    \* document, the object's index, the locals counter and
    \* partial_indices_paths of build_full_index, the files on disk (file k
    \* is Compressed_Index_k.vb), the partial indexes written, the chunks
    \* whose processing raised, the error raised by the build
    doc_tokens, inverted_index, counter, partial_indices_paths, disk,
    b_written, b_failed, b_error, b_pc,
    \* the build of index and Lexicon: the Lexicon's dict, the partial index
    \* of each chunk, the merged index
    _lexicon, lx_partials, lx_final, lx_pc,
    \* QueryProcessor: the posting lists the index was built from, the
    \* object's inverted_index, lexicon and document_table (the length of
    \* each document), the last process_query call, the value of its local
    \* matching_docs, the error it raised and the mapping it returned (its
    \* entries in order)
    qp_postings, qp_inverted_index, qp_lexicon, qp_document_table, q_call,
    q_matching, q_error, q_result, q_pc,
    \* Scoring: the last compute_score call and what it returned or raised
    s_call, s_result, s_pc,
    \* the process_query calls that run at the same time on the shared index,
    \* Lexicon and DocumentTable: for each worker its call and how far it is
    workers,
    \* EvaluationMain.evaluate_all_queries: the queries, the relevance
    \* judgments, the results dict, the position in the three nested loops
    ev_queries, ev_qrels, ev_results, ev_next, ev_pc

codecVars == <<c_doc_ids, c_frequencies, c_data, c_result, c_pc>>
plVars == <<compressed_chunks, chunk_boundaries,
            current_chunk_index, current_posting_index,
            current_chunk_doc_ids, current_chunk_frequencies,
            pl_doc_ids, pl_frequencies, pl_target, pl_returned, pl_earlier,
            pl_ascending, pl_last>>
mpVars == <<mp_list1, mp_list2, postings1, postings2, merged_postings, mp_pc>>
miVars == <<index_A, index_B, index_C, mi_AB, mi_BA, mi_BC, mi_AB_C, mi_A_BC,
            mi_pc>>
mmVars == <<index_paths, indices, futures, mm_pending, merged_results,
            mm_result, mm_out_of_order, mm_pc>>
idxVars == <<chunk_size, _compressed_index, idx_last, idx_error, idx_calls,
             idx_added, idx_ranges, idx_empty_call, idx_file, idx_written,
             idx_loaded, idx_pc>>
loaderVars == <<collection, ld_chunk_size, _total_docs, total_lines, start,
                ld_yielded, ld_pc, ld_returned>>
buildVars == <<doc_tokens, inverted_index, counter, partial_indices_paths,
               disk, b_written, b_failed, b_error, b_pc>>
coreVars == <<codecVars, plVars, mpVars, miVars, mmVars, idxVars>>
lexVars == <<_lexicon, lx_partials, lx_final, lx_pc>>
evalVars == <<ev_queries, ev_qrels, ev_results, ev_next, ev_pc>>
queryVars == <<qp_postings, qp_inverted_index, qp_lexicon, qp_document_table,
               q_call, q_matching, q_error, q_result, q_pc,
               s_call, s_result, s_pc, workers, evalVars>>
pipelineVars == <<loaderVars, buildVars, lexVars, queryVars>>
vars == <<coreVars, pipelineVars>>

\* what an operation of one component leaves alone
NotCodec == <<plVars, mpVars, miVars, mmVars, idxVars, pipelineVars>>
NotPostingList == <<codecVars, mpVars, miVars, mmVars, idxVars, pipelineVars>>
NotMergePostings == <<codecVars, plVars, miVars, mmVars, idxVars, pipelineVars>>
NotMergeIndices == <<codecVars, plVars, mpVars, mmVars, idxVars, pipelineVars>>
NotMergeMany == <<codecVars, plVars, mpVars, miVars, idxVars, pipelineVars>>
NotIndex == <<codecVars, plVars, mpVars, miVars, mmVars, pipelineVars>>

\* the ascending lists over a set of values, of length at most n
AscendingLists(values, n) ==
    {Sorted(S) : S \in {T \in SUBSET values : Cardinality(T) <= n}}

\* the lists of length n over a set of values
ListsOf(values, n) == [1..n -> values]

(***************************************************************************)
(* The components at rest: what a specification about one component        *)
(* leaves the others in.                                                   *)
(***************************************************************************)
CodecIdle ==
    /\ c_doc_ids = <<>>
    /\ c_frequencies = <<>>
    /\ c_data = <<>>
    /\ c_result = Decoded("none", <<>>, <<>>)
    /\ c_pc = "idle"

PostingListIdle ==
    /\ compressed_chunks = <<>>
    /\ chunk_boundaries = <<>>
    /\ current_chunk_index = 0
    /\ current_posting_index = 0
    /\ current_chunk_doc_ids = <<>>
    /\ current_chunk_frequencies = <<>>
    /\ pl_doc_ids = <<>>
    /\ pl_frequencies = <<>>
    /\ pl_target = -1
    /\ pl_returned = None
    /\ pl_earlier = 0
    /\ pl_ascending = FALSE
    /\ pl_last = ""

PostingsList(d, f) == [doc_ids |-> d, frequencies |-> f]

MergePostingsIdle ==
    /\ mp_list1 = PostingsList(<<>>, <<>>)
    /\ mp_list2 = PostingsList(<<>>, <<>>)
    /\ postings1 = <<>>
    /\ postings2 = <<>>
    /\ merged_postings = <<>>
    /\ mp_pc = "idle"

MergeIndicesIdle ==
    /\ index_A = EmptyIndex
    /\ index_B = EmptyIndex
    /\ index_C = EmptyIndex
    /\ mi_AB = EmptyIndex
    /\ mi_BA = EmptyIndex
    /\ mi_BC = EmptyIndex
    /\ mi_AB_C = EmptyIndex
    /\ mi_A_BC = EmptyIndex
    /\ mi_pc = "idle"

MergeManyIdle ==
    /\ index_paths = <<>>
    /\ indices = <<>>
    /\ futures = <<>>
    /\ mm_pending = {}
    /\ merged_results = <<>>
    /\ mm_result = EmptyIndex
    /\ mm_out_of_order = FALSE
    /\ mm_pc = "idle"

NoCall == [term |-> "", doc_ids |-> <<>>, frequencies |-> <<>>, new |-> FALSE]

\* a CompressedInvertedIndex of chunk size C just constructed
IndexEmpty(C) ==
    /\ chunk_size = C
    /\ _compressed_index = <<>>
    /\ idx_last = NoCall
    /\ idx_error = "none"
    /\ idx_calls = 0
    /\ idx_added = [t \in Terms |-> {}]
    /\ idx_ranges = [t \in Terms |-> {}]
    /\ idx_empty_call = FALSE
    /\ idx_file = <<>>
    /\ idx_written = <<>>
    /\ idx_loaded = LoadResult("none", <<>>)

IndexIdle == IndexEmpty(1) /\ idx_pc = "idle"

MergerIdle == MergePostingsIdle /\ MergeIndicesIdle /\ MergeManyIdle

\* _total_docs = None
NoTotal == -1

\* "max_results: int = 10"
DefaultMaxResults == 10

\* no call on the loader has returned yet
NoReturn == [call |-> "", total |-> 0, rows |-> <<>>, lines |-> {}]

LoaderIdle ==
    /\ collection = <<>>
    /\ ld_chunk_size = 1
    /\ _total_docs = NoTotal
    /\ total_lines = 0
    /\ start = 0
    /\ ld_yielded = <<>>
    /\ ld_pc = "idle"
    /\ ld_returned = NoReturn

BuilderAtRest ==
    /\ inverted_index = <<>>
    /\ counter = 0
    /\ partial_indices_paths = <<>>
    /\ disk = <<>>
    /\ b_written = <<>>
    /\ b_failed = {}
    /\ b_error = "none"
    /\ b_pc = "idle"

BuilderIdle == doc_tokens = <<>> /\ BuilderAtRest

LexiconIdle ==
    /\ _lexicon = [t \in {} |-> 0]
    /\ lx_partials = <<>>
    /\ lx_final = EmptyIndex
    /\ lx_pc = "idle"

CoreIdle == CodecIdle /\ PostingListIdle /\ MergerIdle /\ IndexIdle

\* no process_query call yet
NoQuery ==
    [query_terms |-> <<>>, query_type |-> "", method |-> "", max_results |-> 0,
     order |-> ""]

\* no compute_score call yet
NoScoreCall == [term |-> "", doc_id |-> 0, payload |-> 0, method |-> ""]

ScoringIdle ==
    /\ s_call = NoScoreCall
    /\ s_result = [error |-> "none", score |-> 0]
    /\ s_pc = "idle"

\* no evaluation is run
EvaluationIdle ==
    /\ ev_queries = <<>>
    /\ ev_qrels = {}
    /\ ev_results = <<>>
    /\ ev_next = 0
    /\ ev_pc = "idle"

QueryAtRest ==
    /\ ScoringIdle
    /\ EvaluationIdle
    /\ workers = <<>>
    /\ q_call = NoQuery
    /\ q_matching = [keys |-> <<>>, maps |-> <<>>]
    /\ q_error = "none"
    /\ q_result = <<>>

QueryIdle ==
    /\ qp_postings = <<>>
    /\ qp_inverted_index = <<>>
    /\ qp_lexicon = [t \in {} |-> 0]
    /\ qp_document_table = <<>>
    /\ QueryAtRest
    /\ q_pc = "idle"

PipelineIdle == LoaderIdle /\ BuilderIdle /\ LexiconIdle /\ QueryIdle

(***************************************************************************)
(* Codec: compress a pair of lists, then decompress the blob.              *)
(***************************************************************************)
CodecInit ==
    /\ c_doc_ids \in AscendingLists(CodecDocIds, MaxLen)
    /\ c_frequencies \in ListsOf(CodecFreqs, Len(c_doc_ids))
    /\ c_data = <<>>
    /\ c_result = Decoded("none", <<>>, <<>>)
    /\ c_pc = "input"

Compress ==
    /\ c_pc = "input"
    /\ c_data' = p_for_delta_compress(c_doc_ids, c_frequencies)
    /\ c_pc' = "compressed"
    /\ UNCHANGED <<c_doc_ids, c_frequencies, c_result>>
    /\ UNCHANGED NotCodec

Decompress ==
    /\ c_pc = "compressed"
    /\ c_result' = p_for_delta_decompress(c_data)
    /\ c_pc' = "decompressed"
    /\ UNCHANGED <<c_doc_ids, c_frequencies, c_data>>
    /\ UNCHANGED NotCodec

CodecNext == Compress \/ Decompress

InitCodec == CodecInit /\ PostingListIdle /\ MergerIdle /\ IndexIdle /\ PipelineIdle

SpecCodec == InitCodec /\ [][CodecNext]_vars

(***************************************************************************)
(* PostingList: an iterator over the chunks of one term.                   *)
(***************************************************************************)
Iter == IterState(current_chunk_index, current_posting_index,
                  current_chunk_doc_ids, current_chunk_frequencies)

SetIter(st) ==
    /\ current_chunk_index' = st.current_chunk_index
    /\ current_posting_index' = st.current_posting_index
    /\ current_chunk_doc_ids' = st.current_chunk_doc_ids
    /\ current_chunk_frequencies' = st.current_chunk_frequencies

\* get_posting_list(term) of a term added with compress_and_add_postings
PostingListInit ==
    /\ pl_doc_ids \in AscendingLists(1..MaxDoc, MaxDoc)
    /\ pl_frequencies \in ListsOf(TFValues, Len(pl_doc_ids))
    /\ \E C \in 1..MaxChunkSize :
          LET cp == _create_posting_chunks(pl_doc_ids, pl_frequencies, C)
          IN /\ compressed_chunks = cp.chunks
             /\ chunk_boundaries = cp.boundaries
    /\ LET st == PostingList_init(compressed_chunks)
       IN /\ current_chunk_index = st.current_chunk_index
          /\ current_posting_index = st.current_posting_index
          /\ current_chunk_doc_ids = st.current_chunk_doc_ids
          /\ current_chunk_frequencies = st.current_chunk_frequencies
    /\ pl_target = -1
    /\ pl_returned = None
    /\ pl_earlier = 0
    /\ pl_ascending = TRUE
    /\ pl_last = ""

NextGeq(target) ==
    LET r == next_geq(compressed_chunks, chunk_boundaries, Iter, target)
    IN /\ SetIter(r.state)
       /\ pl_returned' = r.returned
       /\ pl_target' = target
       /\ pl_earlier' = Max(pl_earlier, pl_returned.doc_id)
       /\ pl_ascending' = (pl_ascending /\ target >= pl_target)
       /\ pl_last' = "next_geq"
       /\ UNCHANGED <<compressed_chunks, chunk_boundaries,
                      pl_doc_ids, pl_frequencies>>
       /\ UNCHANGED NotPostingList

Reset ==
    /\ SetIter(reset(compressed_chunks, Iter))
    /\ pl_ascending' = FALSE
    /\ pl_last' = "reset"
    /\ UNCHANGED <<compressed_chunks, chunk_boundaries, pl_doc_ids,
                   pl_frequencies, pl_target, pl_returned, pl_earlier>>
    /\ UNCHANGED NotPostingList

PostingListNext ==
    \/ \E target \in 0..(MaxDoc + 1) : NextGeq(target)
    \/ Reset

InitPostingList == PostingListInit /\ CodecIdle /\ MergerIdle /\ IndexIdle /\ PipelineIdle

SpecPostingList == InitPostingList /\ [][PostingListNext]_vars

(***************************************************************************)
(* Merger._merge_compressed_postings on two blobs.                         *)
(***************************************************************************)
\* the posting lists over a set of doc_ids and a set of frequencies
PostingsLists(docs, freqs) ==
    UNION {{PostingsList(d, f) : f \in ListsOf(freqs, Len(d))} :
           d \in AscendingLists(docs, Cardinality(docs))}

\* a blob of the format whose symbols are w bytes wide
blob_of_width(list, w) ==
    <<w>> \o pack_symbols(delta_encode(list.doc_ids), w)
          \o pack_symbols(list.frequencies, w)

\* the blobs that encode a posting list: the one p_for_delta_compress
\* writes, and the one with symbols a byte wider than needed
BlobsOf(list) ==
    IF Len(list.doc_ids) = 0 THEN {<<>>}
    ELSE LET blob == p_for_delta_compress(list.doc_ids, list.frequencies)
         IN {blob, blob_of_width(list, blob[1] + 1)}

\* the posting lists handed, encoded, to _merge_compressed_postings
MergeLists == PostingsLists(1..MaxMergeDoc, MergeFreqs)

MergePostingsInit ==
    /\ mp_list1 \in MergeLists
    /\ mp_list2 \in MergeLists
    /\ postings1 \in BlobsOf(mp_list1)
    /\ postings2 \in BlobsOf(mp_list2)
    /\ merged_postings = <<>>
    /\ mp_pc = "input"

MergePostings ==
    /\ mp_pc = "input"
    /\ merged_postings' = _merge_compressed_postings(postings1, postings2)
    /\ mp_pc' = "merged"
    /\ UNCHANGED <<mp_list1, mp_list2, postings1, postings2>>
    /\ UNCHANGED NotMergePostings

MergePostingsNext == MergePostings

InitMergePostings ==
    /\ CodecIdle /\ PostingListIdle /\ MergeIndicesIdle /\ MergeManyIdle
    /\ IndexIdle
    /\ MergePostingsInit /\ PipelineIdle

SpecMergePostings == InitMergePostings /\ [][MergePostingsNext]_vars

(***************************************************************************)
(* Merger._merge_two_indices on three indexes, in both groupings.          *)
(***************************************************************************)
\* the indexes whose terms are among Terms, the postings of term t being
\* one of Lists(t)
IndexesOver(Lists(_)) ==
    UNION {{index \in [T -> UNION {BlobsOf(l) : l \in UNION {Lists(t) : t \in T}}] :
               \A t \in T :
                   \E l \in Lists(t) :
                       index[t] = p_for_delta_compress(l.doc_ids, l.frequencies)} :
           T \in SUBSET Terms}

\* the posting lists of a term in the indexes handed to _merge_two_indices:
\* never empty (a term of a built index has a posting)
PairLists(t) ==
    {l \in PostingsLists(IF t = "a" THEN IndexDocIds ELSE {2}, TFValues) :
        Len(l.doc_ids) > 0}

\* the indexes handed to _merge_two_indices
PairIndexes == IndexesOver(PairLists)

MergeIndicesInit ==
    /\ index_A \in PairIndexes
    /\ index_B \in PairIndexes
    /\ index_C \in PairIndexes
    /\ mi_AB = EmptyIndex
    /\ mi_BA = EmptyIndex
    /\ mi_BC = EmptyIndex
    /\ mi_AB_C = EmptyIndex
    /\ mi_A_BC = EmptyIndex
    /\ mi_pc = "input"

MergeLeft ==
    /\ mi_pc = "input"
    /\ mi_AB' = _merge_two_indices(index_A, index_B)
    /\ mi_AB_C' = _merge_two_indices(_merge_two_indices(index_A, index_B), index_C)
    /\ mi_pc' = "left"
    /\ UNCHANGED <<index_A, index_B, index_C, mi_BA, mi_BC, mi_A_BC>>
    /\ UNCHANGED NotMergeIndices

MergeRight ==
    /\ mi_pc = "left"
    /\ mi_BC' = _merge_two_indices(index_B, index_C)
    /\ mi_A_BC' = _merge_two_indices(index_A, _merge_two_indices(index_B, index_C))
    /\ mi_pc' = "right"
    /\ UNCHANGED <<index_A, index_B, index_C, mi_AB, mi_BA, mi_AB_C>>
    /\ UNCHANGED NotMergeIndices

MergeSwapped ==
    /\ mi_pc = "right"
    /\ mi_BA' = _merge_two_indices(index_B, index_A)
    /\ mi_pc' = "done"
    /\ UNCHANGED <<index_A, index_B, index_C, mi_AB, mi_BC, mi_AB_C, mi_A_BC>>
    /\ UNCHANGED NotMergeIndices

MergeIndicesNext == MergeLeft \/ MergeRight \/ MergeSwapped

InitMergeIndices ==
    /\ CodecIdle /\ PostingListIdle /\ MergePostingsIdle /\ MergeManyIdle
    /\ IndexIdle
    /\ MergeIndicesInit /\ PipelineIdle

SpecMergeIndices == InitMergeIndices /\ [][MergeIndicesNext]_vars

(***************************************************************************)
(* Merger.merge_multiple_compressed_indices: the tournament.  The pair     *)
(* merges of a level run in worker processes on copies of their inputs;    *)
(* as_completed yields them in any order.                                  *)
(***************************************************************************)
ManyLists(t) ==
    IF t = "a" THEN {PostingsList(<<1>>, <<1>>), PostingsList(<<1, 2>>, <<2, 1>>)}
    ELSE {PostingsList(<<2>>, <<1>>)}

\* the indexes handed to merge_multiple_compressed_indices
ManyIndexes == IndexesOver(ManyLists)

\* the lists of at most n indexes
IndexLists(n) == UNION {[1..k -> ManyIndexes] : k \in 0..n}

MergeManyInit ==
    /\ index_paths \in IndexLists(MaxIndexes)
    /\ indices = <<>>
    /\ futures = <<>>
    /\ mm_pending = {}
    /\ merged_results = <<>>
    /\ mm_result = EmptyIndex
    /\ mm_out_of_order = FALSE
    /\ mm_pc = "start"

\* "if not index_paths: raise ValueError"
RaiseEmptyPaths ==
    /\ mm_pc = "start"
    /\ Len(index_paths) = 0
    /\ mm_pc' = "ValueError"
    /\ UNCHANGED <<index_paths, indices, futures, mm_pending, merged_results,
                   mm_result, mm_out_of_order>>
    /\ UNCHANGED NotMergeMany

\* indices = [load_compressed_index_to_memory(path) for path in index_paths]
LoadIndices ==
    /\ mm_pc = "start"
    /\ Len(index_paths) > 0
    /\ indices' = index_paths
    /\ mm_pc' = "loop"
    /\ UNCHANGED <<index_paths, futures, mm_pending, merged_results,
                   mm_result, mm_out_of_order>>
    /\ UNCHANGED NotMergeMany

\* one turn of the while loop up to the submission of the pair merges
SubmitLevel ==
    /\ mm_pc = "loop"
    /\ Len(indices) > 1
    /\ merged_results' = <<>>
    /\ futures' = submit_pairs(indices)
    /\ mm_pending' = 1..Len(submit_pairs(indices))
    /\ mm_pc' = "collect"
    /\ UNCHANGED <<index_paths, indices, mm_result, mm_out_of_order>>
    /\ UNCHANGED NotMergeMany

\* as_completed yields future k: merged_results.append(future.result())
CollectFuture(k) ==
    /\ mm_pc = "collect"
    /\ k \in mm_pending
    /\ merged_results' = Append(merged_results, futures[k])
    /\ mm_pending' = mm_pending \ {k}
    /\ mm_out_of_order' = (mm_out_of_order \/ \E j \in mm_pending : j < k)
    /\ UNCHANGED <<index_paths, indices, futures, mm_result, mm_pc>>
    /\ UNCHANGED NotMergeMany

\* the end of the turn: the odd index out, indices = merged_results
CloseLevel ==
    /\ mm_pc = "collect"
    /\ mm_pending = {}
    /\ indices' = close_level(indices, merged_results)
    /\ mm_pc' = "loop"
    /\ UNCHANGED <<index_paths, futures, mm_pending, merged_results,
                   mm_result, mm_out_of_order>>
    /\ UNCHANGED NotMergeMany

\* return indices[0]
ReturnMerged ==
    /\ mm_pc = "loop"
    /\ Len(indices) = 1
    /\ mm_result' = indices[1]
    /\ mm_pc' = "done"
    /\ UNCHANGED <<index_paths, indices, futures, mm_pending, merged_results,
                   mm_out_of_order>>
    /\ UNCHANGED NotMergeMany

MergeManyNext ==
    \/ RaiseEmptyPaths
    \/ LoadIndices
    \/ SubmitLevel
    \/ \E k \in 1..MaxIndexes : CollectFuture(k)
    \/ CloseLevel
    \/ ReturnMerged

InitMergeMany ==
    /\ CodecIdle /\ PostingListIdle /\ MergePostingsIdle /\ MergeIndicesIdle
    /\ IndexIdle
    /\ MergeManyInit /\ PipelineIdle

SpecMergeMany == InitMergeMany /\ [][MergeManyNext]_vars

\* the indexes of a tournament: those of the term "a" alone
TournamentIndexes == {index \in ManyIndexes : get_terms(index) = {"a"}}

\* merge_multiple_compressed_indices on up to MaxTournament paths
TournamentInit ==
    /\ index_paths
           \in UNION {[1..k -> TournamentIndexes] : k \in 0..MaxTournament}
    /\ indices = <<>>
    /\ futures = <<>>
    /\ mm_pending = {}
    /\ merged_results = <<>>
    /\ mm_result = EmptyIndex
    /\ mm_out_of_order = FALSE
    /\ mm_pc = "start"

TournamentNext ==
    \/ RaiseEmptyPaths
    \/ LoadIndices
    \/ SubmitLevel
    \/ \E k \in 1..MaxTournament : CollectFuture(k)
    \/ CloseLevel
    \/ ReturnMerged

InitTournament ==
    /\ CodecIdle /\ PostingListIdle /\ MergePostingsIdle /\ MergeIndicesIdle
    /\ IndexIdle
    /\ TournamentInit /\ PipelineIdle

\* the while loop can start a round: "while len(indices) > 1"
SubmitEnabled == mm_pc = "loop" /\ Len(indices) > 1

\* weak fairness of SubmitLevel, with its enabling condition written out
FairSubmit == []<>(~SubmitEnabled) \/ []<><<SubmitLevel>>_vars

\* the calling thread runs each statement it reaches, and the executor
\* completes every future it was given
TournamentFairness ==
    /\ WF_vars(RaiseEmptyPaths)
    /\ WF_vars(LoadIndices)
    /\ FairSubmit
    /\ WF_vars(\E k \in 1..MaxTournament : CollectFuture(k))
    /\ WF_vars(CloseLevel)
    /\ WF_vars(ReturnMerged)

FairTournament ==
    InitTournament /\ [][TournamentNext]_vars /\ TournamentFairness

(***************************************************************************)
(* CompressedInvertedIndex: postings are added to an index, which is then  *)
(* written to a file, and the file is loaded.                              *)
(***************************************************************************)
IndexInit ==
    /\ \E C \in 1..MaxIndexChunkSize : IndexEmpty(C)
    /\ idx_pc = "building"

\* the frequencies a call hands over with its doc_ids: 2 for an odd doc_id,
\* 1 for an even one
CallFrequencies(doc_ids) == [i \in 1..Len(doc_ids) |-> 1 + (doc_ids[i] % 2)]

\* the doc_id range [first, last] of a call
CallRange(doc_ids) == <<doc_ids[1], doc_ids[Len(doc_ids)]>>

Disjoint(r1, r2) == r1[2] < r2[1] \/ r2[2] < r1[1]

\* compress_and_add_postings(term, doc_ids, frequencies); the doc_id range
\* of the call is disjoint from those of the earlier calls for the term
AddPostings(term, doc_ids, frequencies) ==
    /\ idx_pc = "building"
    /\ idx_calls < MaxCalls
    /\ Len(doc_ids) > 0 => \A r \in idx_ranges[term] : Disjoint(r, CallRange(doc_ids))
    /\ LET r == compress_and_add_postings(_compressed_index, chunk_size, term,
                                          doc_ids, frequencies)
       IN /\ _compressed_index' = r.index
          /\ idx_error' = r.error
    /\ idx_last' = [term |-> term, doc_ids |-> doc_ids,
                    frequencies |-> frequencies,
                    new |-> (key_position(_compressed_index, term) = 0)]
    /\ idx_calls' = idx_calls + 1
    /\ idx_added' = [idx_added EXCEPT ![term] =
                        @ \cup {Posting(doc_ids[i], frequencies[i]) :
                                   i \in 1..Len(doc_ids)}]
    /\ idx_ranges' = [idx_ranges EXCEPT ![term] =
                        IF Len(doc_ids) > 0 THEN @ \cup {CallRange(doc_ids)}
                        ELSE @]
    /\ idx_empty_call' = (idx_empty_call \/ Len(doc_ids) = 0)
    /\ UNCHANGED <<chunk_size, idx_file, idx_written, idx_loaded, idx_pc>>
    /\ UNCHANGED NotIndex

\* write_compressed_index_to_file(filename)
WriteIndex ==
    /\ idx_pc = "building"
    /\ idx_file' = write_compressed_index_to_file(_compressed_index)
    /\ idx_written' = _compressed_index
    /\ idx_pc' = "written"
    /\ UNCHANGED <<chunk_size, _compressed_index, idx_last, idx_error,
                   idx_calls, idx_added, idx_ranges, idx_empty_call,
                   idx_loaded>>
    /\ UNCHANGED NotIndex

\* load_compressed_index_to_memory(filename)
LoadIndex ==
    /\ idx_pc = "written"
    /\ idx_loaded' = load_compressed_index_to_memory(idx_file)
    /\ idx_pc' = "loaded"
    /\ UNCHANGED <<chunk_size, _compressed_index, idx_last, idx_error,
                   idx_calls, idx_added, idx_ranges, idx_empty_call,
                   idx_file, idx_written>>
    /\ UNCHANGED NotIndex

IndexNext ==
    \/ \E term \in Terms :
          \E doc_ids \in AscendingLists(1..MaxIndexDoc, MaxIndexDoc) :
             AddPostings(term, doc_ids, CallFrequencies(doc_ids))
    \/ WriteIndex
    \/ LoadIndex

InitIndex == CodecIdle /\ PostingListIdle /\ MergerIdle /\ IndexInit /\ PipelineIdle

SpecIndex == InitIndex /\ [][IndexNext]_vars

(***************************************************************************)
(* Codec: p_for_delta_decompress on the bytes of any blob.                 *)
(***************************************************************************)
\* the blobs of a width byte in 1..MaxWidth and at most MaxPayload payload
\* bytes
Blobs ==
    {<<w>> \o payload :
        w \in 1..MaxWidth,
        payload \in UNION {[1..n -> BlobBytes] : n \in 0..MaxPayload}}

DecodeInit ==
    /\ c_doc_ids = <<>>
    /\ c_frequencies = <<>>
    /\ c_data \in Blobs
    /\ c_result = Decoded("none", <<>>, <<>>)
    /\ c_pc = "compressed"

InitDecode == DecodeInit /\ PostingListIdle /\ MergerIdle /\ IndexIdle /\ PipelineIdle

SpecDecode == InitDecode /\ [][Decompress]_vars

(***************************************************************************)
(* CompressedInvertedIndex: a file cut short is loaded.                    *)
(***************************************************************************)
\* the indexes the files are written from: "a" added with chunk size C, and
\* "bc" added or not
WrittenIndexes ==
    {compress_and_add_postings(
         compress_and_add_postings(<<>>, C, "a", d, CallFrequencies(d)).index,
         C, "bc", e, CallFrequencies(e)).index :
        C \in 1..MaxIndexChunkSize,
        d \in AscendingLists(1..MaxIndexDoc, MaxIndexDoc) \ {<<>>},
        e \in {<<1>>}}
    \cup
    {compress_and_add_postings(<<>>, C, "a", d, CallFrequencies(d)).index :
        C \in 1..MaxIndexChunkSize,
        d \in AscendingLists(1..MaxIndexDoc, MaxIndexDoc) \ {<<>>}}

\* the first n bytes of a file
truncate(file, n) == SubSeq(file, 1, n)

CutFileInit ==
    /\ chunk_size = 1
    /\ _compressed_index \in WrittenIndexes
    /\ idx_written = _compressed_index
    /\ \E n \in 0..Len(write_compressed_index_to_file(_compressed_index)) :
          idx_file = truncate(write_compressed_index_to_file(_compressed_index), n)
    /\ idx_last = NoCall
    /\ idx_error = "none"
    /\ idx_calls = 0
    /\ idx_added = [t \in Terms |-> {}]
    /\ idx_ranges = [t \in Terms |-> {}]
    /\ idx_empty_call = FALSE
    /\ idx_loaded = LoadResult("none", <<>>)
    /\ idx_pc = "written"

InitCutFile == CodecIdle /\ PostingListIdle /\ MergerIdle /\ CutFileInit /\ PipelineIdle

SpecCutFile == InitCutFile /\ [][LoadIndex]_vars

(***************************************************************************)
(* CollectionLoader: the process_chunks generator.                         *)
(***************************************************************************)
\* the collection files: line k holds the document of doc_id k, or is a
\* line process_single_chunk drops (a wrong number of columns, or an index
\* that is not a number), written 0
Collections ==
    {[k \in 1..Len(kept) |-> IF kept[k] THEN k ELSE 0] :
        kept \in UNION {[1..n -> BOOLEAN] : n \in 0..MaxLines}}

\* the doc_ids of the rows kept from the lines a+1..b of the file
RECURSIVE rows(_, _, _)
rows(file, a, b) ==
    IF a >= b THEN <<>>
    ELSE (IF file[a + 1] # 0 THEN <<file[a + 1]>> ELSE <<>>)
         \o rows(file, a + 1, b)

\* get_total_docs(): the lines after the header, counted once
get_total_docs(total, file) == IF total = NoTotal THEN Len(file) ELSE total

\* a mutant of process_single_chunk: the line at start is skipped too
process_single_chunk_skip(file, from, size) ==
    rows(file, Min(from + 1, Len(file)), Min(from + 1 + size, Len(file)))

\* process_single_chunk(start, chunk_size): skip start lines, read up to
\* chunk_size lines, keep the well-formed rows
process_single_chunk(file, from, size) ==
    rows(file, Min(from, Len(file)), Min(from + size, Len(file)))

\* the generator just created by process_chunks(chunk_size)
LoaderInit ==
    /\ collection \in Collections
    /\ ld_chunk_size \in 1..MaxLoaderChunk
    /\ _total_docs = NoTotal
    /\ total_lines = 0
    /\ start = 0
    /\ ld_yielded = <<>>
    /\ ld_pc = "created"
    /\ ld_returned = NoReturn

\* where the generator stands when it is resumed: the start of the next
\* chunk and the number of lines
next_start == IF ld_pc = "created" THEN 0 ELSE start + ld_chunk_size

lines_total ==
    IF ld_pc = "created" THEN get_total_docs(_total_docs, collection)
    ELSE total_lines

\* next() on the generator while start < total_lines: a chunk is yielded
YieldChunk ==
    /\ ld_pc \in {"created", "yielded"}
    /\ next_start < lines_total
    /\ start' = next_start
    /\ total_lines' = lines_total
    /\ _total_docs' = lines_total
    /\ ld_yielded' = Append(ld_yielded,
                            process_single_chunk(collection, next_start,
                                                 ld_chunk_size))
    /\ ld_pc' = "yielded"
    /\ UNCHANGED <<collection, ld_chunk_size, ld_returned>>

\* next() on the generator when start >= total_lines: StopIteration
Exhaust ==
    /\ ld_pc \in {"created", "yielded"}
    /\ next_start >= lines_total
    /\ start' = next_start
    /\ total_lines' = lines_total
    /\ _total_docs' = lines_total
    /\ ld_pc' = "exhausted"
    /\ UNCHANGED <<collection, ld_chunk_size, ld_yielded, ld_returned>>

LoaderNext ==
    \/ YieldChunk /\ UNCHANGED <<coreVars, buildVars, lexVars, queryVars>>
    \/ Exhaust /\ UNCHANGED <<coreVars, buildVars, lexVars, queryVars>>

InitLoader ==
    CoreIdle /\ LoaderInit /\ BuilderIdle /\ LexiconIdle /\ QueryIdle

SpecLoader == InitLoader /\ [][LoaderNext]_vars

(***************************************************************************)
(* CollectionLoader: any sequence of calls on one loader.                  *)
(***************************************************************************)
\* "for _ in range(start): next(file)" runs past the end of the file
skip_raises(file, from) == from > Len(file)

\* the lines the reservoir of sample_lines(num_lines) can hold at the end
reservoirs(file, num_lines) ==
    {S \in SUBSET (1..Len(file)) : Cardinality(S) = Min(num_lines, Len(file))}

\* get_total_docs()
GetTotalDocs ==
    /\ _total_docs' = get_total_docs(_total_docs, collection)
    /\ ld_returned' = [NoReturn EXCEPT
                          !.call = "get_total_docs",
                          !.total = get_total_docs(_total_docs, collection)]
    /\ UNCHANGED <<collection, ld_chunk_size, total_lines, start, ld_yielded,
                   ld_pc>>

\* sample_lines(num_lines): "self._total_docs = num_lines", then the
\* reservoir is filled; the conversion of the reservoir to a DataFrame
\* touches no field of the loader
SampleLines(num_lines) ==
    /\ _total_docs' = num_lines
    /\ \E S \in reservoirs(collection, num_lines) :
          ld_returned' = [NoReturn EXCEPT !.call = "sample_lines",
                                          !.lines = S]
    /\ UNCHANGED <<collection, ld_chunk_size, total_lines, start, ld_yielded,
                   ld_pc>>

\* process_single_chunk(start, chunk_size) called directly
ProcessSingleChunk(from, size) ==
    /\ ld_returned' =
          IF skip_raises(collection, from)
          THEN [NoReturn EXCEPT !.call = "StopIteration"]
          ELSE [NoReturn EXCEPT
                   !.call = "process_single_chunk",
                   !.rows = process_single_chunk(collection, from, size)]
    /\ UNCHANGED <<collection, ld_chunk_size, _total_docs, total_lines, start,
                   ld_yielded, ld_pc>>

\* process_chunks(): a new generator; no statement of it has run yet
ProcessChunks ==
    /\ ld_pc \in {"exhausted", "RuntimeError"}
    /\ ld_pc' = "created"
    /\ ld_yielded' = <<>>
    /\ start' = 0
    /\ total_lines' = 0
    /\ ld_returned' = [NoReturn EXCEPT !.call = "process_chunks"]
    /\ UNCHANGED <<collection, ld_chunk_size, _total_docs>>

\* next() on the generator: process_single_chunk has the lines to skip
YieldChunkInFile ==
    /\ ~skip_raises(collection, next_start)
    /\ YieldChunk

\* next() on the generator: process_single_chunk raises StopIteration while
\* it skips, which ends the generator with RuntimeError
RaiseInChunk ==
    /\ ld_pc \in {"created", "yielded"}
    /\ next_start < lines_total
    /\ skip_raises(collection, next_start)
    /\ start' = next_start
    /\ total_lines' = lines_total
    /\ _total_docs' = lines_total
    /\ ld_pc' = "RuntimeError"
    /\ UNCHANGED <<collection, ld_chunk_size, ld_yielded, ld_returned>>

LoaderCallsNext ==
    \/ GetTotalDocs /\ UNCHANGED <<coreVars, buildVars, lexVars, queryVars>>
    \/ (\E num_lines \in 0..MaxSample : SampleLines(num_lines))
           /\ UNCHANGED <<coreVars, buildVars, lexVars, queryVars>>
    \/ (\E from \in 0..MaxSample, size \in 1..MaxLoaderChunk :
            ProcessSingleChunk(from, size))
           /\ UNCHANGED <<coreVars, buildVars, lexVars, queryVars>>
    \/ ProcessChunks /\ UNCHANGED <<coreVars, buildVars, lexVars, queryVars>>
    \/ YieldChunkInFile /\ UNCHANGED <<coreVars, buildVars, lexVars, queryVars>>
    \/ RaiseInChunk /\ UNCHANGED <<coreVars, buildVars, lexVars, queryVars>>
    \/ Exhaust /\ UNCHANGED <<coreVars, buildVars, lexVars, queryVars>>

SpecLoaderCalls == InitLoader /\ [][LoaderCallsNext]_vars

(***************************************************************************)
(* InvertedIndexBuilder.build_full_index: one partial index per chunk.     *)
(***************************************************************************)
\* what the preprocessor gives for a document: no token, one term, or two
\* terms and an empty token
TokenSets == {{}, {"a"}, {"a", "bc", ""}}

\* the orders in which a set of tokens is iterated
TokenOrders == {<<"", "a", "bc">>, <<"bc", "a", "">>}

\* InvertedIndex.add_posting(term, doc_id) on the dict term -> doc_ids
add_posting(index, term, doc_id) ==
    IF \E i \in 1..Len(index) : index[i].term = term
    THEN [i \in 1..Len(index) |->
             IF index[i].term = term
             THEN [index[i] EXCEPT !.postings = Append(@, doc_id)]
             ELSE index[i]]
    ELSE Append(index, [term |-> term, postings |-> <<doc_id>>])

\* "for token in unique_tokens: if not token: continue; add_posting(...)"
RECURSIVE add_tokens(_, _, _, _)
add_tokens(index, doc_id, tokens, order) ==
    IF order = <<>> THEN index
    ELSE add_tokens(IF Head(order) \in tokens /\ Head(order) # ""
                    THEN add_posting(index, Head(order), doc_id)
                    ELSE index,
                    doc_id, tokens, Tail(order))

\* "for doc_id, doc_tokens in zip(chunk['index'], tokens)"
RECURSIVE add_documents(_, _, _, _)
add_documents(index, chunk, tokens, order) ==
    IF chunk = <<>> THEN index
    ELSE add_documents(add_tokens(index, Head(chunk), tokens[Head(chunk)],
                                  order),
                       Tail(chunk), tokens, order)

\* process_chunk(chunk): the partial index of the chunk; an empty index for
\* an empty chunk and when the preprocessing raises (the except clause)
process_chunk(chunk, tokens, order, raises) ==
    IF Len(chunk) = 0 THEN <<>>
    ELSE IF raises THEN <<>>
    ELSE add_documents(<<>>, chunk, tokens, order)

\* InvertedIndex.pfor_delta_compress(doc_ids): the width and the deltas
pfor_delta_compress(doc_ids) ==
    LET deltas == delta_encode(doc_ids)
        bit_width ==
            (SeqMax([i \in 1..Len(deltas) |-> bit_length(deltas[i])], 1) + 7)
                \div 8
    IN <<bit_width>> \o pack_symbols(deltas, bit_width)

WriteResult(e, f) == [error |-> e, file |-> f]

\* InvertedIndex.write_compressed_index_to_file(filename): for the first
\* term the lengths and the term are written, then b''.join of a bytes
\* object raises TypeError; an index of no term gives an empty file
write_partial_index(index) ==
    IF index = <<>> THEN WriteResult("none", <<>>)
    ELSE WriteResult("TypeError",
             pack_native(Len(utf8_encode(index[1].term)), 2)
             \o utf8_encode(index[1].term)
             \o pack_native(Len(pfor_delta_compress(index[1].postings)), 4))

\* InvertedIndexBuilder(collection_loader, preprocessing, chunk_size) and
\* the entry of build_full_index
BuilderInit ==
    /\ LoaderInit
    /\ doc_tokens \in [1..MaxLines -> TokenSets]
    /\ inverted_index = <<>>
    /\ counter = 0
    /\ partial_indices_paths = <<>>
    /\ disk = <<>>
    /\ b_written = <<>>
    /\ b_failed = {}
    /\ b_error = "none"
    /\ b_pc = "running"

\* one iteration of "for chunk in chunks": the chunk is processed and its
\* index written; raises: the preprocessing of the chunk raises
BuildChunk(order, raises) ==
    /\ b_pc = "running"
    /\ YieldChunk
    /\ LET chunk == process_single_chunk(collection, next_start, ld_chunk_size)
           chunk_index == process_chunk(chunk, doc_tokens, order, raises)
           written == write_partial_index(chunk_index)
       IN /\ counter' = counter + 1
          /\ disk' = Append(disk, written.file)
          /\ b_written' = Append(b_written, chunk_index)
          /\ b_failed' = IF raises /\ Len(chunk) > 0
                         THEN b_failed \cup {counter + 1} ELSE b_failed
          /\ b_error' = written.error
          /\ IF written.error = "none"
             THEN /\ partial_indices_paths'
                        = Append(partial_indices_paths, counter + 1)
                  /\ b_pc' = "running"
             ELSE /\ partial_indices_paths' = partial_indices_paths
                  /\ b_pc' = "raised"
    /\ UNCHANGED <<doc_tokens, inverted_index>>
    /\ UNCHANGED <<coreVars, lexVars, queryVars>>

\* the end of the loop: the merge is not called, the statistics are
\* printed, build_full_index returns
BuildFinish ==
    /\ b_pc = "running"
    /\ Exhaust
    /\ b_pc' = "done"
    /\ UNCHANGED <<doc_tokens, inverted_index, counter,
                   partial_indices_paths, disk, b_written, b_failed, b_error>>
    /\ UNCHANGED <<coreVars, lexVars, queryVars>>

BuilderNext ==
    \/ \E order \in TokenOrders : \E raises \in BOOLEAN :
          BuildChunk(order, raises)
    \/ BuildFinish

InitBuilder == CoreIdle /\ BuilderInit /\ LexiconIdle /\ QueryIdle

SpecBuilder == InitBuilder /\ [][BuilderNext]_vars

(***************************************************************************)
(* The build of index and Lexicon.  The builder that fills a Lexicon       *)
(* (Index/InvertedIndex/InvertedIndexBuilder) is not at hand: its steps    *)
(* follow the specification, section 4.8; Lexicon, the chunks and the      *)
(* merge are the code's.                                                   *)
(***************************************************************************)
\* _lexicon.get(term): the document frequency, None for a missing term
NoTermInfo == -1

get_term_info(lexicon, term) ==
    IF term \in DOMAIN lexicon THEN lexicon[term] ELSE NoTermInfo

\* a mutant of add_term: the document frequency replaces the stored one
add_term_replace(lexicon, term, document_frequency) ==
    [t \in DOMAIN lexicon \cup {term} |->
        IF t = term THEN document_frequency ELSE lexicon[t]]

\* Lexicon.add_term(term, document_frequency)
add_term(lexicon, term, document_frequency) ==
    [t \in DOMAIN lexicon \cup {term} |->
        IF t = term
        THEN (IF term \in DOMAIN lexicon THEN lexicon[term] ELSE 0)
             + document_frequency
        ELSE lexicon[t]]

\* the terms of a document: its distinct non-empty tokens
document_terms(tokens, doc_id) == tokens[doc_id] \ {""}

\* the occurrences of a term in a document that holds it
term_frequency(doc_id, term) == 1 + (doc_id % 2)

\* "update Lexicon DF (+1 per distinct term per document)" for a document
RECURSIVE add_document_terms(_, _)
add_document_terms(lexicon, todo) ==
    IF todo = {} THEN lexicon
    ELSE LET term == CHOOSE t \in todo : TRUE
         IN add_document_terms(add_term(lexicon, term, 1), todo \ {term})

RECURSIVE update_lexicon(_, _, _)
update_lexicon(lexicon, chunk, tokens) ==
    IF chunk = <<>> THEN lexicon
    ELSE update_lexicon(
             add_document_terms(lexicon, document_terms(tokens, Head(chunk))),
             Tail(chunk), tokens)

\* the documents of a chunk that hold a term, in input order
RECURSIVE documents_with(_, _, _)
documents_with(chunk, tokens, term) ==
    IF chunk = <<>> THEN <<>>
    ELSE (IF term \in document_terms(tokens, Head(chunk))
          THEN <<Head(chunk)>> ELSE <<>>)
         \o documents_with(Tail(chunk), tokens, term)

\* the partial index of a chunk: for each term of its documents the
\* compressed postings (doc_id, TF)
partial_index(chunk, tokens) ==
    [t \in UNION {document_terms(tokens, chunk[i]) : i \in 1..Len(chunk)} |->
        LET doc_ids == documents_with(chunk, tokens, t)
        IN p_for_delta_compress(
               doc_ids,
               [i \in 1..Len(doc_ids) |-> term_frequency(doc_ids[i], t)])]

\* "while len(indices) > 1" of merge_multiple_compressed_indices, every
\* level collected in the order of submission
RECURSIVE merge_levels(_)
merge_levels(level) ==
    IF Len(level) <= 1 THEN level[1]
    ELSE merge_levels(close_level(level, submit_pairs(level)))

LexiconInit ==
    /\ LoaderInit
    /\ doc_tokens \in [1..MaxLines -> TokenSets]
    /\ BuilderAtRest
    /\ LexiconIdle

\* a chunk is pulled, its partial index is built and spilled, the Lexicon
\* is updated
IndexChunk ==
    /\ lx_pc \in {"idle", "indexing"}
    /\ YieldChunk
    /\ LET chunk == process_single_chunk(collection, next_start, ld_chunk_size)
       IN /\ _lexicon' = update_lexicon(_lexicon, chunk, doc_tokens)
          /\ lx_partials' = Append(lx_partials,
                                   partial_index(chunk, doc_tokens))
    /\ lx_pc' = "indexing"
    /\ UNCHANGED lx_final
    /\ UNCHANGED <<coreVars, buildVars, queryVars>>

\* the input is exhausted: the partial indexes are merged
MergePartials ==
    /\ lx_pc = "indexing"
    /\ Exhaust
    /\ lx_final' = merge_levels(lx_partials)
    /\ lx_pc' = "built"
    /\ UNCHANGED <<_lexicon, lx_partials>>
    /\ UNCHANGED <<coreVars, buildVars, queryVars>>

LexiconNext == IndexChunk \/ MergePartials

InitLexicon == CoreIdle /\ LexiconInit /\ QueryIdle

SpecLexicon == InitLexicon /\ [][LexiconNext]_vars

(***************************************************************************)
(* QueryProcessor and Scoring.  A score is kept in thousandths: math.log   *)
(* is a table of natural logarithms in thousandths, math.log(N / DF) is    *)
(* the difference of two of its entries, and a product or a quotient is    *)
(* rounded down to a thousandth.                                           *)
(***************************************************************************)
\* math.log(n) in thousandths
log_milli(n) ==
    CASE n = 1 -> 0
      [] n = 2 -> 693
      [] n = 3 -> 1099
      [] n = 4 -> 1386
      [] n = 5 -> 1609
      [] n = 6 -> 1792
      [] n = 7 -> 1946
      [] n = 8 -> 2079

\* DocumentTable.get_document_length(doc_id): 0 for an unknown document
get_document_length(table, doc_id) ==
    IF doc_id \in DOMAIN table THEN table[doc_id] ELSE 0

\* DocumentTable.get_all_documents()
get_all_documents(table) == DOMAIN table

\* Scoring.__init__: total_documents
total_documents(table) == Cardinality(get_all_documents(table))

\* the sum of _calculate_avg_doc_length
RECURSIVE sum_lengths(_, _)
sum_lengths(table, docs) ==
    IF docs = {} THEN 0
    ELSE LET d == CHOOSE x \in docs : TRUE
         IN get_document_length(table, d) + sum_lengths(table, docs \ {d})

total_length(table) == sum_lengths(table, get_all_documents(table))

Scored(e, s) == [error |-> e, score |-> s]

\* math.log(self.total_documents / self.lexicon.get_term_info(term))
idf(lexicon, table, term) ==
    LET df == get_term_info(lexicon, term)
    IN IF df = NoTermInfo THEN Scored("TypeError", 0)
       ELSE IF df = 0 THEN Scored("ZeroDivisionError", 0)
       ELSE IF total_documents(table) = 0 THEN Scored("ValueError", 0)
       ELSE Scored("none", log_milli(total_documents(table)) - log_milli(df))

\* Scoring.compute_tfidf(term, payload)
compute_tfidf(lexicon, table, term, payload) ==
    IF payload <= 0 THEN Scored("ValueError", 0)
    ELSE LET i == idf(lexicon, table, term)
         IN IF i.error # "none" THEN i
            ELSE Scored("none",
                     ((1000 + log_milli(payload)) * i.score) \div 1000)

\* Scoring.compute_bm25(term, doc_id, payload) with k1 = 1.5 and b = 0.75:
\* tf / (tf + k1 * (1 - b + b * doc_length / avg_doc_length)), numerator and
\* denominator multiplied by 8 * total_length
compute_bm25(lexicon, table, term, doc_id, payload) ==
    LET doc_length == get_document_length(table, doc_id)
        i == idf(lexicon, table, term)
        L == total_length(table)
        numerator == 8 * payload * L
        denominator == 8 * payload * L + 3 * L
                          + 9 * doc_length * total_documents(table)
    IN IF doc_length = 0 THEN Scored("none", 0)
       ELSE IF i.error # "none" THEN i
       ELSE IF denominator = 0 THEN Scored("ZeroDivisionError", 0)
       ELSE Scored("none", (i.score * numerator) \div denominator)

\* Scoring.compute_score(term, doc_id, payload, method)
compute_score(lexicon, table, term, doc_id, payload, method) ==
    IF method = "tfidf" THEN compute_tfidf(lexicon, table, term, payload)
    ELSE IF method = "bm25"
    THEN compute_bm25(lexicon, table, term, doc_id, payload)
    ELSE Scored("ValueError", 0)

\* sorted(items, key=...): the items by ascending key, equal keys in their
\* original order
stable_sorted(items, keys) ==
    LET n == Len(items)
        place(i) == 1 + Cardinality({j \in 1..n :
                            \/ keys[j] < keys[i]
                            \/ keys[j] = keys[i] /\ j < i})
    IN [k \in 1..n |-> items[CHOOSE i \in 1..n : place(i) = k]]

\* the keys of a dict built from a list of keys: each once, in the order of
\* its first occurrence
RECURSIVE dict_keys(_)
dict_keys(terms) ==
    IF terms = <<>> THEN <<>>
    ELSE LET front == dict_keys(SubSeq(terms, 1, Len(terms) - 1))
             last == terms[Len(terms)]
         IN IF last \in Range(front) THEN front ELSE Append(front, last)

\* QueryProcessor.get_term_postings(terms)
get_term_postings(index, terms) ==
    [keys |-> dict_keys(terms),
     postings |-> [t \in Range(terms) |-> get_uncompressed_postings(index, t)]]

\* {posting.doc_id for posting in postings}
doc_ids_of(postings) == {postings[i].doc_id : i \in 1..Len(postings)}

\* {posting.doc_id: posting for posting in postings if posting.doc_id in keep}
posting_map(postings, keep) ==
    [d \in doc_ids_of(postings) \cap keep |->
        postings[CHOOSE i \in 1..Len(postings) :
                    /\ postings[i].doc_id = d
                    /\ \A j \in 1..Len(postings) :
                          postings[j].doc_id = d => j <= i]]

\* the value {} of matching_docs
EmptyMatching == [keys |-> <<>>, maps |-> <<>>]

\* sorted(term_postings.items(), key=lambda x: len(x[1]))
sorted_by_length(term_postings) ==
    stable_sorted(term_postings.keys,
                  [i \in 1..Len(term_postings.keys) |->
                      Len(term_postings.postings[term_postings.keys[i]])])

\* a mutant of intersect_remaining: the doc_ids of the other terms are added
RECURSIVE unite_remaining(_, _, _)
unite_remaining(matching_doc_ids, sorted_terms, postings) ==
    IF sorted_terms = <<>>
    THEN [early |-> FALSE, doc_ids |-> matching_doc_ids]
    ELSE unite_remaining(
             matching_doc_ids \cup doc_ids_of(postings[Head(sorted_terms)]),
             Tail(sorted_terms), postings)

\* the loop of execute_conjunctive_query over sorted_terms[1:]
RECURSIVE intersect_remaining(_, _, _)
intersect_remaining(matching_doc_ids, sorted_terms, postings) ==
    IF sorted_terms = <<>>
    THEN [early |-> FALSE, doc_ids |-> matching_doc_ids]
    ELSE LET posting_doc_ids == doc_ids_of(postings[Head(sorted_terms)])
             kept == matching_doc_ids \cap posting_doc_ids
         IN IF kept = {} THEN [early |-> TRUE, doc_ids |-> {}]
            ELSE intersect_remaining(kept, Tail(sorted_terms), postings)

\* QueryProcessor.execute_conjunctive_query(term_postings)
execute_conjunctive_query(term_postings) ==
    IF term_postings.keys = <<>> THEN EmptyMatching
    ELSE LET sorted_terms == sorted_by_length(term_postings)
             first_postings == term_postings.postings[sorted_terms[1]]
             rest == intersect_remaining(doc_ids_of(first_postings),
                                         Tail(sorted_terms),
                                         term_postings.postings)
         IN IF rest.early THEN EmptyMatching
            ELSE [keys |-> term_postings.keys,
                  maps |-> [t \in Range(term_postings.keys) |->
                               posting_map(term_postings.postings[t],
                                           rest.doc_ids)]]

\* a mutant of execute_disjunctive_query: only the last posting of each list
\* is kept
execute_disjunctive_last_only(term_postings) ==
    [keys |-> term_postings.keys,
     maps |-> [t \in Range(term_postings.keys) |->
                  LET postings == term_postings.postings[t]
                  IN posting_map(postings,
                         IF postings = <<>> THEN {}
                         ELSE {postings[Len(postings)].doc_id})]]

\* QueryProcessor.execute_disjunctive_query(term_postings)
execute_disjunctive_query(term_postings) ==
    [keys |-> term_postings.keys,
     maps |-> [t \in Range(term_postings.keys) |->
                  LET postings == term_postings.postings[t]
                  IN posting_map(postings, doc_ids_of(postings))]]

\* the orders in which a set of doc_ids is iterated
SetOrders == {"ascending", "descending"}

\* for doc_id in all_doc_ids
set_iteration(S, order) ==
    LET ascending == Sorted(S)
    IN IF order = "ascending" THEN ascending
       ELSE [i \in 1..Len(ascending) |-> ascending[Len(ascending) + 1 - i]]

\* all_doc_ids of rank_documents
all_doc_ids(matching) ==
    UNION {DOMAIN matching.maps[t] : t \in Range(matching.keys)}

\* the inner loop of rank_documents: doc_score over the terms whose map holds
\* doc_id
RECURSIVE doc_score(_, _, _, _, _, _)
doc_score(lexicon, table, matching, keys, doc_id, method) ==
    IF keys = <<>> THEN Scored("none", 0)
    ELSE LET front == doc_score(lexicon, table, matching,
                                SubSeq(keys, 1, Len(keys) - 1), doc_id, method)
             term == keys[Len(keys)]
             postings_map == matching.maps[term]
         IN IF front.error # "none" \/ doc_id \notin DOMAIN postings_map
            THEN front
            ELSE LET s == compute_score(lexicon, table, term, doc_id,
                                        postings_map[doc_id].payload, method)
                 IN IF s.error # "none" THEN s
                    ELSE Scored("none", front.score + s.score)

\* a mutant of sorted_by_score: reverse=True is left out
sorted_by_score_ascending(scores) ==
    stable_sorted(scores, [i \in 1..Len(scores) |-> scores[i][2]])

\* sorted(scores.items(), key=lambda item: item[1], reverse=True)
sorted_by_score(scores) ==
    stable_sorted(scores, [i \in 1..Len(scores) |-> 0 - scores[i][2]])

Ranked(e, r) == [error |-> e, ranked |-> r]

\* QueryProcessor.rank_documents(term_postings, method), the set all_doc_ids
\* iterated in the given order
rank_documents(lexicon, table, matching, method, order) ==
    LET iteration == set_iteration(all_doc_ids(matching), order)
        scored == [i \in 1..Len(iteration) |->
                      doc_score(lexicon, table, matching, matching.keys,
                                iteration[i], method)]
        failed == {i \in 1..Len(iteration) : scored[i].error # "none"}
    IN IF failed # {} THEN Ranked(scored[SetMin(failed)].error, <<>>)
       ELSE Ranked("none",
                sorted_by_score([i \in 1..Len(iteration) |->
                                    <<iteration[i], scored[i].score>>]))

\* a mutant of first_results: the slice [-max_results:]
last_results(ranked, max_results) ==
    SubSeq(ranked, Max(1, Len(ranked) - max_results + 1), Len(ranked))

\* list(ranked_documents.items())[:max_results]
first_results(ranked, max_results) ==
    IF max_results >= 0
    THEN SubSeq(ranked, 1, Min(max_results, Len(ranked)))
    ELSE SubSeq(ranked, 1, Max(0, Len(ranked) + max_results))

Answer(e, m, r) == [error |-> e, matching |-> m, result |-> r]

\* QueryProcessor.process_query(query, query_type, method, max_results), on
\* the tokens the parser gives for the query
process_query(index, lexicon, table, query_terms, query_type, method, max_results, order) ==
    IF query_terms = <<>> THEN Answer("none", EmptyMatching, <<>>)
    ELSE IF query_type \notin {"conjunctive", "disjunctive"}
    THEN Answer("ValueError", EmptyMatching, <<>>)
    ELSE LET term_postings == get_term_postings(index, query_terms)
             matching_docs ==
                 IF query_type = "conjunctive"
                 THEN execute_conjunctive_query(term_postings)
                 ELSE execute_disjunctive_query(term_postings)
             ranked_documents ==
                 rank_documents(lexicon, table, matching_docs, method, order)
         IN IF ranked_documents.error # "none"
            THEN Answer(ranked_documents.error, matching_docs, <<>>)
            ELSE Answer("none", matching_docs,
                        first_results(ranked_documents.ranked, max_results))

\* the documents of the collection a query is run on
QueryDocs == 1..MaxQueryDoc
\* the term frequencies of a term in these documents
QueryTFValues == {1, 3}
\* a term of no document
MissingTerm == "zz"

\* the posting list of a term found tf[d] times in each document d of docs
postings_from(docs, tf) ==
    LET ids == Sorted(docs)
    IN [i \in 1..Len(ids) |-> Posting(ids[i], tf[ids[i]])]

\* the posting lists of the terms: "a" with any frequencies, "bc" once per
\* document
QueryPostings ==
    {[t \in Terms |-> IF t = "a" THEN postings_from(A, tf)
                      ELSE postings_from(B, [d \in B |-> 1])] :
        <<A, B, tf>> \in {<<A, B, tf>> \in
            (SUBSET QueryDocs) \X (SUBSET QueryDocs)
                \X UNION {[S -> QueryTFValues] : S \in SUBSET QueryDocs} :
            DOMAIN tf = A}}

\* the term frequency of a term in a document
tf_in(postings, doc_id) ==
    LET hits == {i \in 1..Len(postings) : postings[i].doc_id = doc_id}
    IN IF hits = {} THEN 0 ELSE postings[SetMin(hits)].payload

\* the index of these posting lists, in chunks of two postings
RECURSIVE index_of(_, _)
index_of(postings, terms) ==
    IF terms = {} THEN <<>>
    ELSE LET t == CHOOSE x \in terms : \A y \in terms : Len(x) <= Len(y)
             rest == index_of(postings, terms \ {t})
         IN IF postings[t] = <<>> THEN rest
            ELSE compress_and_add_postings(rest, 2, t,
                     [i \in 1..Len(postings[t]) |-> postings[t][i].doc_id],
                     [i \in 1..Len(postings[t]) |-> postings[t][i].payload]
                 ).index

\* the Lexicon of these posting lists: the DF of each term with postings
lexicon_of(postings) ==
    [t \in {x \in DOMAIN postings : postings[x] # <<>>} |-> Len(postings[t])]

\* the DocumentTable: the length of each document of the collection
document_table_of(postings) ==
    [d \in QueryDocs |-> tf_in(postings["a"], d) + tf_in(postings["bc"], d)]

\* the token lists the parser gives for the queries
Queries ==
    {<<>>, <<"a">>, <<"a", "bc">>, <<"bc", "a">>, <<"a", MissingTerm>>,
     <<"bc", "bc">>}
QueryTypes == {"conjunctive", "disjunctive"}
Methods == {"tfidf", "bm25"}

\* QueryProcessor.__init__ on an index, its Lexicon and its DocumentTable
QueryInit ==
    /\ qp_postings \in QueryPostings
    /\ qp_inverted_index = index_of(qp_postings, Terms)
    /\ qp_lexicon = lexicon_of(qp_postings)
    /\ qp_document_table = document_table_of(qp_postings)
    /\ QueryAtRest
    /\ q_pc = "ready"

\* process_query: it changes no field of the object, so every call starts
\* from the object as constructed
ProcessQuery ==
    /\ q_pc = "ready"
    /\ \E query_terms \in Queries, query_type \in QueryTypes,
          method \in Methods, max_results \in 1..MaxResults,
          order \in SetOrders :
          LET answer == process_query(qp_inverted_index, qp_lexicon,
                                      qp_document_table, query_terms,
                                      query_type, method, max_results, order)
          IN /\ q_call' = [query_terms |-> query_terms,
                           query_type |-> query_type, method |-> method,
                           max_results |-> max_results, order |-> order]
             /\ q_matching' = answer.matching
             /\ q_error' = answer.error
             /\ q_result' = answer.result
    /\ q_pc' = "answered"
    /\ UNCHANGED <<qp_postings, qp_inverted_index, qp_lexicon,
                   qp_document_table, s_call, s_result, s_pc, workers,
                   evalVars>>
    /\ UNCHANGED <<coreVars, loaderVars, buildVars, lexVars>>

InitQuery ==
    CoreIdle /\ LoaderIdle /\ BuilderIdle /\ LexiconIdle /\ QueryInit

SpecQuery == InitQuery /\ [][ProcessQuery]_vars


(***************************************************************************)
(* Scoring on its own: any Lexicon and DocumentTable, any call.            *)
(***************************************************************************)
\* the Lexicons: the term "a" missing, or with a DF from 0
ScoringLexicons ==
    {[t \in {} |-> 0]} \cup {[t \in {"a"} |-> df] : df \in 0..MaxScoringDF}

\* the DocumentTables: some of the documents 1 and 2, of any length from 0
ScoringTables ==
    UNION {[S -> 0..MaxScoringLength] : S \in SUBSET {1, 2}}

\* Scoring.__init__(lexicon, document_table)
ScoringInit ==
    /\ qp_lexicon \in ScoringLexicons
    /\ qp_document_table \in ScoringTables
    /\ ScoringIdle

\* compute_score(term, doc_id, payload, method)
ComputeScore ==
    /\ s_pc = "idle"
    /\ \E term \in {"a"}, doc_id \in {1, 2}, payload \in QueryTFValues,
          method \in Methods :
          /\ s_call' = [term |-> term, doc_id |-> doc_id, payload |-> payload,
                        method |-> method]
          /\ s_result' = compute_score(qp_lexicon, qp_document_table, term,
                                       doc_id, payload, method)
    /\ s_pc' = "scored"
    /\ UNCHANGED <<qp_postings, qp_inverted_index, qp_lexicon,
                   qp_document_table, q_call, q_matching, q_error, q_result,
                   q_pc, workers, evalVars>>
    /\ UNCHANGED <<coreVars, loaderVars, buildVars, lexVars>>

InitScoring ==
    /\ CoreIdle /\ LoaderIdle /\ BuilderIdle /\ LexiconIdle
    /\ qp_postings = <<>>
    /\ qp_inverted_index = <<>>
    /\ q_call = NoQuery
    /\ q_matching = [keys |-> <<>>, maps |-> <<>>]
    /\ q_error = "none"
    /\ q_result = <<>>
    /\ q_pc = "idle"
    /\ workers = <<>>
    /\ EvaluationIdle
    /\ ScoringInit

SpecScoring == InitScoring /\ [][ComputeScore]_vars


(***************************************************************************)
(* Concurrent process_query calls on one index, Lexicon and DocumentTable. *)
(* Every read is followed by the dict it leaves behind.                    *)
(***************************************************************************)
\* a mutant of index_after_get: the read of a defaultdict, which inserts an
\* empty entry for a missing key
index_after_default_get(dict, term) ==
    IF key_position(dict, term) = 0
    THEN Append(dict, Entry(term, <<>>, <<>>, FALSE))
    ELSE dict

\* "self._compressed_index.get(term)": the dict after the read
index_after_get(dict, term) == dict

\* "self._lexicon.get(term)": the dict after the read
lexicon_after_get(lexicon, term) == lexicon

\* "self._document_table.get(doc_id, {}).get("length", 0)": the dict after
\* the read
table_after_get(table, doc_id) == table

\* the reads of compute_score: get_term_info by both methods,
\* get_document_length by bm25
lexicon_after_score(lexicon, term, method) ==
    IF method \in {"tfidf", "bm25"} THEN lexicon_after_get(lexicon, term)
    ELSE lexicon

table_after_score(table, doc_id, method) ==
    IF method = "bm25" THEN table_after_get(table, doc_id) ELSE table

\* the (term, doc_id) pairs rank_documents scores, in the order of the loops
RECURSIVE scored_pairs(_, _, _)
scored_pairs(matching, iteration, keys) ==
    IF iteration = <<>> THEN <<>>
    ELSE IF keys = <<>>
    THEN scored_pairs(matching, Tail(iteration), matching.keys)
    ELSE (IF Head(iteration) \in DOMAIN matching.maps[Head(keys)]
          THEN <<<<Head(keys), Head(iteration)>>>>
          ELSE <<>>)
         \o scored_pairs(matching, iteration, Tail(keys))

\* the Lexicon and the DocumentTable after the reads of rank_documents
RECURSIVE lexicon_after_rank(_, _, _)
lexicon_after_rank(lexicon, pairs, method) ==
    IF pairs = <<>> THEN lexicon
    ELSE lexicon_after_rank(lexicon_after_score(lexicon, Head(pairs)[1], method),
                            Tail(pairs), method)

RECURSIVE table_after_rank(_, _, _)
table_after_rank(table, pairs, method) ==
    IF pairs = <<>> THEN table
    ELSE table_after_rank(table_after_score(table, Head(pairs)[2], method),
                          Tail(pairs), method)

Workers == {1, 2}

\* the posting lists the workers query: "a" three times in each of its
\* documents, "bc" in document 1 or in none
WorkerPostings ==
    {p \in QueryPostings :
        /\ \A i \in 1..Len(p["a"]) : p["a"][i].payload = 3
        /\ doc_ids_of(p["bc"]) \subseteq {1}}

\* the token lists of the workers' queries
WorkerQueries == {<<>>, <<"a", "bc">>, <<"a", MissingTerm>>}

\* a worker that has not yet run a statement of its call
Worker(query_terms, query_type, method) ==
    [query_terms |-> query_terms, query_type |-> query_type,
     method |-> method, pc |-> "called", read |-> 0,
     postings |-> <<>>, matching |-> EmptyMatching, error |-> "none",
     result |-> <<>>, overlapped |-> FALSE]

WorkersInit ==
    /\ qp_postings \in WorkerPostings
    /\ qp_inverted_index = index_of(qp_postings, Terms)
    /\ qp_lexicon = lexicon_of(qp_postings)
    /\ qp_document_table = document_table_of(qp_postings)
    /\ ScoringIdle
    /\ EvaluationIdle
    /\ q_call = NoQuery
    /\ q_matching = EmptyMatching
    /\ q_error = "none"
    /\ q_result = <<>>
    /\ q_pc = "idle"
    /\ workers \in [Workers ->
                       {Worker(query_terms, query_type, method) :
                           query_terms \in WorkerQueries,
                           query_type \in QueryTypes, method \in Methods}]

\* the other worker is in the middle of its call
other_running(w) ==
    \E v \in Workers \ {w} :
        /\ workers[v].pc # "done"
        /\ workers[v].pc = "called" => workers[v].read > 0

\* "if not query_terms: return {}"
ReturnEmpty(w) ==
    /\ workers[w].pc = "called"
    /\ workers[w].query_terms = <<>>
    /\ workers' = [workers EXCEPT ![w].pc = "done",
                                  ![w].overlapped = @ \/ other_running(w)]
    /\ UNCHANGED <<qp_inverted_index, qp_lexicon, qp_document_table>>

\* get_term_postings: the next term of the comprehension is read
ReadTerm(w) ==
    /\ workers[w].pc = "called"
    /\ workers[w].read < Len(workers[w].query_terms)
    /\ LET term == workers[w].query_terms[workers[w].read + 1]
           found == get_uncompressed_postings(qp_inverted_index, term)
       IN /\ workers' =
                [workers EXCEPT
                    ![w].read = @ + 1,
                    ![w].postings =
                        [t \in DOMAIN @ \cup {term} |->
                            IF t = term THEN found ELSE @[t]],
                    ![w].pc = IF workers[w].read + 1
                                    = Len(workers[w].query_terms)
                              THEN "execute" ELSE "called",
                    ![w].overlapped = @ \/ other_running(w)]
          /\ qp_inverted_index' = index_after_get(qp_inverted_index, term)
    /\ UNCHANGED <<qp_lexicon, qp_document_table>>

\* execute_conjunctive_query / execute_disjunctive_query on the postings read
ExecuteQuery(w) ==
    /\ workers[w].pc = "execute"
    /\ LET term_postings == [keys |-> dict_keys(workers[w].query_terms),
                             postings |-> workers[w].postings]
       IN workers' =
              [workers EXCEPT
                  ![w].matching =
                      IF workers[w].query_type = "conjunctive"
                      THEN execute_conjunctive_query(term_postings)
                      ELSE execute_disjunctive_query(term_postings),
                  ![w].pc = "rank",
                  ![w].overlapped = @ \/ other_running(w)]
    /\ UNCHANGED <<qp_inverted_index, qp_lexicon, qp_document_table>>

\* rank_documents and the slice of the first max_results
RankDocuments(w) ==
    /\ workers[w].pc = "rank"
    /\ LET matching == workers[w].matching
           method == workers[w].method
           ranked == rank_documents(qp_lexicon, qp_document_table, matching,
                                    method, "ascending")
           pairs == scored_pairs(matching,
                                 set_iteration(all_doc_ids(matching),
                                               "ascending"),
                                 matching.keys)
       IN /\ workers' =
                [workers EXCEPT
                    ![w].error = ranked.error,
                    ![w].result = IF ranked.error # "none" THEN <<>>
                                  ELSE first_results(ranked.ranked,
                                                     MaxResults),
                    ![w].pc = "done",
                    ![w].overlapped = @ \/ other_running(w)]
          /\ qp_lexicon' = lexicon_after_rank(qp_lexicon, pairs, method)
          /\ qp_document_table' =
                table_after_rank(qp_document_table, pairs, method)
    /\ UNCHANGED qp_inverted_index

WorkersNext ==
    \/ \E w \in Workers : ReturnEmpty(w) /\ UNCHANGED <<coreVars, loaderVars, buildVars, lexVars, qp_postings, q_call, q_matching, q_error, q_result, q_pc, s_call, s_result, s_pc, evalVars>>
    \/ \E w \in Workers : ReadTerm(w) /\ UNCHANGED <<coreVars, loaderVars, buildVars, lexVars, qp_postings, q_call, q_matching, q_error, q_result, q_pc, s_call, s_result, s_pc, evalVars>>
    \/ \E w \in Workers : ExecuteQuery(w) /\ UNCHANGED <<coreVars, loaderVars, buildVars, lexVars, qp_postings, q_call, q_matching, q_error, q_result, q_pc, s_call, s_result, s_pc, evalVars>>
    \/ \E w \in Workers : RankDocuments(w) /\ UNCHANGED <<coreVars, loaderVars, buildVars, lexVars, qp_postings, q_call, q_matching, q_error, q_result, q_pc, s_call, s_result, s_pc, evalVars>>

InitWorkers ==
    CoreIdle /\ LoaderIdle /\ BuilderIdle /\ LexiconIdle /\ WorkersInit

SpecWorkers == InitWorkers /\ [][WorkersNext]_vars

(***************************************************************************)
(* EvaluationMain.evaluate_all_queries (EvaluationCLI has the same loops). *)
(***************************************************************************)
\* the (query_type, method) pairs in the order of the two inner for loops
Combinations ==
    <<<<"conjunctive", "tfidf">>, <<"conjunctive", "bm25">>,
      <<"disjunctive", "tfidf">>, <<"disjunctive", "bm25">>>>

\* "valid_queries = [query for query in queries if query[0] in
\* query_relevance]"
valid_queries(queries, qrels) ==
    SelectSeq(queries,
              LAMBDA query : \E j \in qrels : j.query_id = query.query_id)

\* what compute_ndcg returns: None without judged documents, else the number
\* that ndcg_score (or the except clause) gives for these two arrays
NoNdcg == [none |-> TRUE, ideal |-> <<>>, relevance |-> <<>>]

\* "qrels.get((query_id, doc_id), 0)"
qrels_get(qrels, query_id, doc_id) ==
    IF \E j \in qrels : j.query_id = query_id /\ j.doc_id = doc_id
    THEN (CHOOSE j \in qrels :
              j.query_id = query_id /\ j.doc_id = doc_id).relevance
    ELSE 0

\* compute_ndcg(ranked_docs, query_id, qrels)
compute_ndcg(ranked_docs, query_id, qrels) ==
    LET judged_docs == {j.doc_id : j \in {x \in qrels : x.query_id = query_id}}
        relevance_scores ==
            [i \in 1..Len(ranked_docs) |->
                qrels_get(qrels, query_id, ranked_docs[i][1])]
        ascending == Sorted(judged_docs)
        ideal == stable_sorted(
                     [i \in 1..Len(ascending) |->
                         qrels_get(qrels, query_id, ascending[i])],
                     [i \in 1..Len(ascending) |->
                         0 - qrels_get(qrels, query_id, ascending[i])])
        padded == relevance_scores
                      \o [i \in 1..(Len(ideal) - Len(relevance_scores)) |-> 0]
    IN IF judged_docs = {} THEN NoNdcg
       ELSE [none |-> FALSE, ideal |-> ideal, relevance |-> padded]

\* the Lexicon files that can lie next to the index: its own, and that of
\* a build without the term "bc"
LexiconFiles(postings) ==
    {lexicon_of(postings),
     [t \in DOMAIN lexicon_of(postings) \ {"bc"} |-> lexicon_of(postings)[t]]}

\* the query lists: query k has the id k and one of these texts
EvaluationQueries ==
    UNION {[1..n -> {<<"a">>, <<"bc">>}] : n \in 1..MaxEvaluationQueries}

\* __init__ and the call evaluate_all_queries(queries, qrels), up to the
\* first turn of the loops
EvaluationInit ==
    /\ qp_postings \in WorkerPostings
    /\ qp_inverted_index = index_of(qp_postings, Terms)
    /\ qp_lexicon \in LexiconFiles(qp_postings)
    /\ qp_document_table = document_table_of(qp_postings)
    /\ ScoringIdle
    /\ workers = <<>>
    /\ q_call = NoQuery
    /\ q_matching = EmptyMatching
    /\ q_error = "none"
    /\ q_result = <<>>
    /\ q_pc = "idle"
    /\ \E texts \in EvaluationQueries :
          /\ ev_queries = [k \in 1..Len(texts) |->
                              [query_id |-> k, query_terms |-> texts[k]]]
          /\ \E judged \in SUBSET (1..Len(texts)) :
                ev_qrels = {[query_id |-> k, doc_id |-> 1, relevance |-> k] :
                               k \in judged}
    /\ ev_results = [c \in Range(Combinations) |-> <<>>]
    /\ ev_next = 1
    /\ ev_pc = "running"

\* the turn ev_next of the loops: its query and its combination
turn_query ==
    valid_queries(ev_queries, ev_qrels)[((ev_next - 1) \div 4) + 1]

turn_combination == Combinations[((ev_next - 1) % 4) + 1]

turn_answer ==
    process_query(qp_inverted_index, qp_lexicon, qp_document_table,
                  turn_query.query_terms, turn_combination[1],
                  turn_combination[2], DefaultMaxResults, "ascending")

\* one turn: process_query returns, the NDCG is appended unless it is None
EvaluateQuery ==
    /\ ev_pc = "running"
    /\ ev_next <= 4 * Len(valid_queries(ev_queries, ev_qrels))
    /\ turn_answer.error = "none"
    /\ LET ndcg == compute_ndcg(turn_answer.result, turn_query.query_id,
                                ev_qrels)
       IN ev_results' =
              IF ndcg.none THEN ev_results
              ELSE [ev_results EXCEPT ![turn_combination] = Append(@, ndcg)]
    /\ ev_next' = ev_next + 1
    /\ UNCHANGED <<ev_queries, ev_qrels, ev_pc>>

\* one turn: process_query raises; no statement of process_query or
\* evaluate_all_queries catches it
QueryRaises ==
    /\ ev_pc = "running"
    /\ ev_next <= 4 * Len(valid_queries(ev_queries, ev_qrels))
    /\ turn_answer.error # "none"
    /\ ev_pc' = turn_answer.error
    /\ UNCHANGED <<ev_queries, ev_qrels, ev_results, ev_next>>

\* "return results"
ReturnResults ==
    /\ ev_pc = "running"
    /\ ev_next > 4 * Len(valid_queries(ev_queries, ev_qrels))
    /\ ev_pc' = "returned"
    /\ UNCHANGED <<ev_queries, ev_qrels, ev_results, ev_next>>

EvaluationNext ==
    \/ EvaluateQuery /\ UNCHANGED <<coreVars, loaderVars, buildVars, lexVars, qp_postings, qp_inverted_index, qp_lexicon, qp_document_table, q_call, q_matching, q_error, q_result, q_pc, s_call, s_result, s_pc, workers>>
    \/ QueryRaises /\ UNCHANGED <<coreVars, loaderVars, buildVars, lexVars, qp_postings, qp_inverted_index, qp_lexicon, qp_document_table, q_call, q_matching, q_error, q_result, q_pc, s_call, s_result, s_pc, workers>>
    \/ ReturnResults /\ UNCHANGED <<coreVars, loaderVars, buildVars, lexVars, qp_postings, qp_inverted_index, qp_lexicon, qp_document_table, q_call, q_matching, q_error, q_result, q_pc, s_call, s_result, s_pc, workers>>

InitEvaluation ==
    CoreIdle /\ LoaderIdle /\ BuilderIdle /\ LexiconIdle /\ EvaluationInit

SpecEvaluation == InitEvaluation /\ [][EvaluationNext]_vars

(***************************************************************************)
(* process_query with any arguments, the unknown ones included.            *)
(***************************************************************************)
\* a query_type and a method the code does not know
AnyQueryTypes == QueryTypes \cup {"phrase"}
AnyMethods == Methods \cup {"cosine"}

\* process_query(query, query_type, method, max_results)
ProcessAnyQuery ==
    /\ q_pc = "ready"
    /\ \E query_terms \in Queries, query_type \in AnyQueryTypes,
          method \in AnyMethods :
          LET answer == process_query(qp_inverted_index, qp_lexicon,
                                      qp_document_table, query_terms,
                                      query_type, method, MaxResults,
                                      "ascending")
          IN /\ q_call' = [query_terms |-> query_terms,
                           query_type |-> query_type, method |-> method,
                           max_results |-> MaxResults, order |-> "ascending"]
             /\ q_matching' = answer.matching
             /\ q_error' = answer.error
             /\ q_result' = answer.result
    /\ q_pc' = "answered"
    /\ UNCHANGED <<qp_postings, qp_inverted_index, qp_lexicon,
                   qp_document_table, s_call, s_result, s_pc, workers,
                   evalVars>>
    /\ UNCHANGED <<coreVars, loaderVars, buildVars, lexVars>>

SpecQueryArguments == InitQuery /\ [][ProcessAnyQuery]_vars


(***************************************************************************)
(* Claims.                                                                 *)
(***************************************************************************)
\* C1: decompressing the compression of (D, F) returns exactly (D, F); the
\* empty pair is compressed to the empty byte string, which is decompressed
\* to ([], []).
C1_RoundTrip ==
    /\ (c_pc \in {"compressed", "decompressed"} /\ Len(c_doc_ids) = 0
           => c_data = <<>>)
    /\ (c_pc = "decompressed"
           => c_result = Decoded("none", c_doc_ids, c_frequencies))
    /\ (c_pc = "decompressed" /\ c_data = <<>>
           => c_result = Decoded("none", <<>>, <<>>))

\* a round trip of three postings through symbols of two bytes
C1_Witness ==
    /\ c_pc = "decompressed"
    /\ Len(c_doc_ids) = 3
    /\ c_data[1] = 2
    /\ c_result.doc_ids = c_doc_ids

\* the posting next_geq has to return: the first of the list whose doc_id
\* is >= target
ExpectedGeq(doc_ids, frequencies, target) ==
    LET hits == {i \in 1..Len(doc_ids) : doc_ids[i] >= target}
    IN IF hits = {} THEN None
       ELSE Posting(doc_ids[SetMin(hits)], frequencies[SetMin(hits)])

\* C2: from a fresh iterator, every call of a run of next_geq calls with
\* non-decreasing targets returns the posting with the smallest
\* doc_id >= target of the whole list, or none when there is none.
C2_NextGeqCorrect ==
    pl_ascending /\ pl_target # -1
        => pl_returned = ExpectedGeq(pl_doc_ids, pl_frequencies, pl_target)

\* a call that lands in the gap between two chunks, after an earlier call
C2_Witness ==
    /\ pl_ascending
    /\ pl_earlier > 0
    /\ pl_returned # None
    /\ pl_returned.doc_id > pl_target
    /\ current_chunk_index > 0
    /\ pl_target > chunk_boundaries[current_chunk_index][2]

\* C3: over a run of next_geq calls with non-decreasing targets the doc_ids
\* of the returned postings never decrease.
C3_Monotonic ==
    pl_ascending /\ pl_returned # None => pl_returned.doc_id >= pl_earlier

\* a later call returned a larger doc_id than an earlier one
C3_Witness ==
    /\ pl_ascending
    /\ pl_earlier > 0
    /\ pl_returned # None
    /\ pl_returned.doc_id > pl_earlier

\* the frequency of doc_id in a posting list, 0 when it has no such posting
FrequencyIn(list, doc_id) ==
    IF \E i \in 1..Len(list.doc_ids) : list.doc_ids[i] = doc_id
    THEN list.frequencies[CHOOSE i \in 1..Len(list.doc_ids) :
                              list.doc_ids[i] = doc_id]
    ELSE 0

RECURSIVE SumOver(_, _, _)
SumOver(lists, k, doc_id) ==
    IF k = 0 THEN 0
    ELSE FrequencyIn(lists[k], doc_id) + SumOver(lists, k - 1, doc_id)

\* the ascending union of a list of posting lists, frequencies summed
UnionSum(lists) ==
    LET ids == Sorted(UNION {Range(lists[k].doc_ids) : k \in 1..Len(lists)})
    IN PostingsList(ids, [i \in 1..Len(ids) |-> SumOver(lists, Len(lists), ids[i])])

\* C4: the blob _merge_compressed_postings returns decodes to the ascending
\* union of the doc_ids of both inputs, each with the sum of its frequencies.
C4_MergePostings ==
    mp_pc = "merged"
        => LET d == p_for_delta_decompress(merged_postings)
               e == UnionSum(<<mp_list1, mp_list2>>)
           IN d = Decoded("none", e.doc_ids, e.frequencies)

\* two lists that share a doc_id and each have one of their own; the summed
\* frequency needs a wider symbol than the inputs
C4_Witness ==
    /\ mp_pc = "merged"
    /\ Range(mp_list1.doc_ids) \cap Range(mp_list2.doc_ids) # {}
    /\ Range(mp_list1.doc_ids) \ Range(mp_list2.doc_ids) # {}
    /\ Range(mp_list2.doc_ids) \ Range(mp_list1.doc_ids) # {}
    /\ postings1[1] = 1
    /\ postings2[1] = 1
    /\ merged_postings[1] = 2

\* the postings a blob of an index decodes to
PostingsOf(index, term) ==
    LET d == p_for_delta_decompress(get_compressed_postings(index, term))
    IN PostingsList(d.doc_ids, d.frequencies)

\* the index the merge of a list of indexes has to be: the union of the
\* terms, and for each term the union of its postings, frequencies summed
IsMergeOf(index, inputs) ==
    /\ get_terms(index) = UNION {get_terms(inputs[k]) : k \in 1..Len(inputs)}
    /\ \A t \in get_terms(index) :
          /\ p_for_delta_decompress(index[t]).error = "none"
          /\ PostingsOf(index, t)
                = UnionSum([k \in 1..Len(inputs) |-> PostingsOf(inputs[k], t)])

SameIndex(x, y) ==
    /\ get_terms(x) = get_terms(y)
    /\ \A t \in get_terms(x) :
          p_for_delta_decompress(x[t]) = p_for_delta_decompress(y[t])

\* C6: _merge_two_indices is associative and commutative, term for term on
\* the decoded postings.
C6_MergeAssociativeCommutative ==
    /\ (mi_pc \in {"right", "done"} => SameIndex(mi_AB_C, mi_A_BC))
    /\ (mi_pc = "done" => SameIndex(mi_AB, mi_BA))

\* three indexes that share a doc_id of a term with three different sums
C6_Witness ==
    /\ mi_pc = "done"
    /\ get_terms(mi_AB_C) = Terms
    /\ \A x \in {index_A, index_B, index_C} : "a" \in get_terms(x)
    /\ PostingsOf(index_A, "a") # PostingsOf(index_B, "a")
    /\ PostingsOf(index_B, "a") # PostingsOf(index_C, "a")
    /\ PostingsOf(mi_AB_C, "a").frequencies[1] >= 4

\* the entry of a term of the index
EntryOf(dict, term) == dict[key_position(dict, term)]

\* the boundary of a chunk is the first and the last of its decoded doc_ids,
\* which are ascending
Described(entry, k) ==
    LET d == p_for_delta_decompress(entry.chunks[k])
    IN /\ d.error = "none"
       /\ Len(d.doc_ids) > 0
       /\ StrictlyAscending(d.doc_ids)
       /\ entry.boundaries[k] = <<d.doc_ids[1], d.doc_ids[Len(d.doc_ids)]>>
       /\ \A i \in 1..Len(d.doc_ids) :
             entry.boundaries[k][1] <= d.doc_ids[i]
             /\ d.doc_ids[i] <= entry.boundaries[k][2]

\* boundaries strictly increasing by first id and not overlapping
SortedBoundaries(boundaries) ==
    \A k \in 1..(Len(boundaries) - 1) :
        /\ boundaries[k][1] < boundaries[k + 1][1]
        /\ boundaries[k][2] < boundaries[k + 1][1]

\* C7: after compress_and_add_postings(term, D, F) on a new term the term
\* has ceil(|D|/C) chunks, all but the last of C postings, each described by
\* its boundary, the boundaries strictly increasing and not overlapping.
C7_ChunkBoundaries ==
    idx_calls > 0 /\ idx_last.new
        => LET e == EntryOf(_compressed_index, idx_last.term)
               n == (Len(idx_last.doc_ids) + chunk_size - 1) \div chunk_size
           IN /\ Len(e.chunks) = n
              /\ Len(e.boundaries) = n
              /\ \A k \in 1..n :
                    /\ Described(e, k)
                    /\ Len(p_for_delta_decompress(e.chunks[k]).doc_ids)
                          = IF k < n THEN chunk_size
                            ELSE Len(idx_last.doc_ids) - chunk_size * (n - 1)
              /\ SortedBoundaries(e.boundaries)

\* three postings added with chunk size 2: a full chunk and a shorter one
C7_Witness ==
    /\ idx_calls = 2
    /\ idx_last.new
    /\ chunk_size = 2
    /\ Len(idx_last.doc_ids) = 3
    /\ Len(EntryOf(_compressed_index, idx_last.term).chunks) = 2
    /\ EntryOf(_compressed_index, idx_last.term).boundaries[2] = <<3, 3>>

\* C8: after any sequence of compress_and_add_postings calls with pairwise
\* disjoint doc_id ranges per term, in any order, the boundaries of every
\* term are sorted strictly increasing by first id and do not overlap, and
\* every chunk is the one its boundary describes.
C8_SortedAcrossCalls ==
    ~idx_empty_call
        => \A i \in 1..Len(_compressed_index) :
              /\ Len(_compressed_index[i].chunks)
                    = Len(_compressed_index[i].boundaries)
              /\ SortedBoundaries(_compressed_index[i].boundaries)
              /\ \A k \in 1..Len(_compressed_index[i].chunks) :
                    Described(_compressed_index[i], k)

\* the postings of a set, ascending by doc_id
RECURSIVE SortedPostings(_)
SortedPostings(S) ==
    IF S = {} THEN <<>>
    ELSE LET m == CHOOSE x \in S : \A y \in S : x.doc_id <= y.doc_id
         IN <<m>> \o SortedPostings(S \ {m})

\* C9: after any sequence of compress_and_add_postings calls with pairwise
\* disjoint doc_id ranges per term, every call completed without error and
\* get_uncompressed_postings returns the postings of all calls, ascending by
\* doc_id, with the frequencies they were added with.
C9_PostingsSurvive ==
    ~idx_empty_call
        => /\ idx_error = "none"
           /\ \A t \in Terms :
                 get_uncompressed_postings(_compressed_index, t)
                    = SortedPostings(idx_added[t])

\* C10: loading the file write_compressed_index_to_file wrote gives the
\* terms of the index and, for every term, its boundaries and its chunks in
\* the same order.
C10_FileRoundTrip ==
    idx_pc = "loaded"
        => /\ idx_loaded.error = "none"
           /\ Len(idx_loaded.index) = Len(idx_written)
           /\ \A i \in 1..Len(idx_written) :
                 /\ idx_loaded.index[i].term = idx_written[i].term
                 /\ idx_loaded.index[i].boundaries = idx_written[i].boundaries
                 /\ idx_loaded.index[i].chunks = idx_written[i].chunks
           /\ \A t \in Terms :
                 get_uncompressed_postings(idx_loaded.index, t)
                    = get_uncompressed_postings(idx_written, t)

\* an index of two terms, one of them with several chunks, written and loaded
C10_Witness ==
    /\ idx_pc = "loaded"
    /\ index_terms(idx_written) = Terms
    /\ index_terms(idx_loaded.index) = Terms
    /\ \E i \in 1..Len(idx_written) : Len(idx_written[i].chunks) >= 3
    /\ Len(idx_file) > 40


\* the payload of a blob: the bytes after the width byte
payload_length(data) == Len(data) - 1

\* the payload holds n deltas and n frequencies of W bytes each, n >= 1
WellFormed(data) ==
    /\ payload_length(data) > 0
    /\ payload_length(data) % (2 * data[1]) = 0

\* C18: p_for_delta_decompress of a non-empty blob of width W >= 1 whose
\* payload is not 2*W*n bytes long for an n >= 1 raises an error (any raised
\* error is counted as the rejection) and returns no arrays.
C18_MalformedRejected ==
    (c_pc = "decompressed" /\ ~WellFormed(c_data))
        => c_result.error # "none"

\* the lengths of the files that end after a whole number of term records
RECURSIVE record_ends(_)
record_ends(dict) ==
    IF dict = <<>> THEN {0}
    ELSE {0} \cup {Len(write_record(dict[1])) + n : n \in record_ends(Tail(dict))}

\* C19: load_compressed_index_to_memory of a file that ends in the middle
\* of a term record (so that a length field or a chunk_len announces more
\* bytes than the file holds) raises an error (any raised error is counted
\* as the rejection) and returns no index.
C19_CorruptFileRejected ==
    (idx_pc = "loaded" /\ Len(idx_file) \notin record_ends(idx_written))
        => idx_loaded.error # "none"


\* the documents of a collection file, in input order
Documents(file) == rows(file, 0, Len(file))

RECURSIVE Flatten(_)
Flatten(chunks) ==
    IF chunks = <<>> THEN <<>> ELSE Head(chunks) \o Flatten(Tail(chunks))

\* C12: the chunks process_chunks yields hold at most chunk_size documents
\* each, have pairwise disjoint doc_id sets, are the documents of the lines
\* read so far in input order, and when the generator is exhausted they
\* hold every document of the collection exactly once.
C12_ChunksPartition ==
    /\ \A k \in 1..Len(ld_yielded) : Len(ld_yielded[k]) <= ld_chunk_size
    /\ \A j, k \in 1..Len(ld_yielded) :
          j # k => Range(ld_yielded[j]) \cap Range(ld_yielded[k]) = {}
    /\ ld_pc = "yielded"
          => Flatten(ld_yielded)
                = rows(collection, 0,
                       Min(start + ld_chunk_size, Len(collection)))
    /\ ld_pc = "exhausted" => Flatten(ld_yielded) = Documents(collection)

C12_Witness ==
    /\ ld_pc = "exhausted"
    /\ ld_chunk_size = 2
    /\ collection = <<1, 0, 3>>
    /\ ld_yielded = <<<<1>>, <<3>>>>

\* the terms of an InvertedIndex
terms_of(index) == {index[i].term : i \in 1..Len(index)}

\* C13: when build_full_index has returned on a collection with a
\* document, the terms of get_index() are the terms of the partial indexes
\* written, there is at least one, and no term has a doc_id twice.
C13_BuildGivesMergedIndex ==
    (b_pc = "done" /\ Documents(collection) # <<>>)
        => /\ terms_of(inverted_index)
                = UNION {terms_of(b_written[k]) : k \in 1..Len(b_written)}
           /\ terms_of(inverted_index) # {}
           /\ \A i \in 1..Len(inverted_index) :
                 \A j, k \in 1..Len(inverted_index[i].postings) :
                    j # k => inverted_index[i].postings[j]
                                # inverted_index[i].postings[k]

\* C20: when the processing of a chunk has raised, build_full_index has
\* stopped with an error at that chunk: no later chunk was processed and
\* no partial index file was written for the chunk.
C20_FailureAborts ==
    \A k \in b_failed :
        /\ b_pc = "raised"
        /\ counter = k
        /\ Len(disk) < k


original_postings(term) ==
    IF term \in DOMAIN qp_postings THEN qp_postings[term] ELSE <<>>

\* the documents that hold every one of the terms
documents_with_all(terms) ==
    {d \in QueryDocs : \A t \in terms : tf_in(original_postings(t), d) > 0}

\* the documents that hold one of the terms at least
documents_with_any(terms) ==
    {d \in QueryDocs : \E t \in terms : tf_in(original_postings(t), d) > 0}

\* the query terms of the last call, last first
reversed_terms ==
    [i \in 1..Len(q_call.query_terms) |->
        q_call.query_terms[Len(q_call.query_terms) + 1 - i]]

\* C14: the doc_ids kept by execute_conjunctive_query are the intersection
\* of the doc_id sets of the query terms (none when a term has no postings),
\* whatever the order of the query terms, and every term maps each kept
\* doc_id to its original posting.
C14_ConjunctiveIsIntersection ==
    q_pc = "answered" /\ q_call.query_type = "conjunctive"
        /\ q_call.query_terms # <<>> =>
        LET terms == Range(q_call.query_terms)
            common == documents_with_all(terms)
            reversed == execute_conjunctive_query(
                            get_term_postings(qp_inverted_index,
                                              reversed_terms))
        IN /\ all_doc_ids(q_matching) = common
           /\ common # {} => Range(q_matching.keys) = terms
           /\ \A t \in Range(q_matching.keys) :
                 /\ DOMAIN q_matching.maps[t] = common
                 /\ \A d \in common :
                       q_matching.maps[t][d]
                           = Posting(d, tf_in(original_postings(t), d))
           /\ all_doc_ids(reversed) = common
           /\ \A t \in Range(reversed.keys) :
                 reversed.maps[t] = q_matching.maps[t]

\* "bc a" on an index where "a" is in three documents and "bc" in two of
\* them
C14_Witness ==
    /\ q_pc = "answered"
    /\ q_call.query_type = "conjunctive"
    /\ q_call.query_terms = <<"bc", "a">>
    /\ Len(qp_postings["a"]) = 3
    /\ all_doc_ids(q_matching) = {1, 3}
    /\ q_matching.maps["a"][3].payload = 3

\* the doc_ids of the entries of a returned mapping
returned(result) == {result[i][1] : i \in 1..Len(result)}

\* what process_query gives for the query of the last call as a disjunctive
\* query, the sets of doc_ids iterated in the same order
disjunctive_answer ==
    process_query(qp_inverted_index, qp_lexicon, qp_document_table,
                  q_call.query_terms, "disjunctive", q_call.method,
                  q_call.max_results, q_call.order)

\* C15: the doc_ids process_query returns for a conjunctive query are among
\* those it returns for the same query as a disjunctive query, with the same
\* scoring method and the same max_results.
C15_ConjunctiveSubsetOfDisjunctive ==
    q_pc = "answered" /\ q_call.query_type = "conjunctive" =>
        returned(q_result) \subseteq returned(disjunctive_answer.result)

\* C15, amended: the documents a conjunctive query matches are among those
\* the disjunctive query matches, and the doc_ids returned are nested as well
\* when max_results is at least the number of documents the disjunctive query
\* matches; a smaller max_results cuts the two rankings independently.
C15_SubsetBeforeTruncation ==
    q_pc = "answered" /\ q_call.query_type = "conjunctive" =>
        /\ all_doc_ids(q_matching)
               \subseteq all_doc_ids(disjunctive_answer.matching)
        /\ q_call.max_results
               >= Cardinality(documents_with_any(Range(q_call.query_terms)))
           => returned(q_result) \subseteq returned(disjunctive_answer.result)

\* "a bc" with max_results 2 on an index where both terms are in documents 1
\* and 2 only: both documents are returned
C15_Witness ==
    /\ q_pc = "answered"
    /\ q_call.query_type = "conjunctive"
    /\ q_call.query_terms = <<"a", "bc">>
    /\ q_call.max_results = 2
    /\ documents_with_any({"a", "bc"}) = {1, 2}
    /\ returned(q_result) = {1, 2}

\* the sum of the scores of a document for those of the terms it holds
RECURSIVE score_sum(_, _)
score_sum(terms, doc_id) ==
    IF terms = {} THEN 0
    ELSE LET t == CHOOSE x \in terms : TRUE
             tf == tf_in(original_postings(t), doc_id)
         IN (IF tf = 0 THEN 0
             ELSE compute_score(qp_lexicon, qp_document_table, t, doc_id, tf,
                                q_call.method).score)
            + score_sum(terms \ {t}, doc_id)

\* the score of a document for the query of the last call
query_score(doc_id) == score_sum(Range(q_call.query_terms), doc_id)

\* the documents the query of the last call has to rank
candidates ==
    IF q_call.query_terms = <<>> THEN {}
    ELSE IF q_call.query_type = "conjunctive"
    THEN documents_with_all(Range(q_call.query_terms))
    ELSE documents_with_any(Range(q_call.query_terms))

\* C16: the entries of the mapping process_query returns are in
\* non-increasing order of score, the score of a document being the sum of
\* the scores of the query terms whose posting lists hold it.
C16_RankingOrder ==
    q_pc = "answered" /\ q_error = "none" =>
        /\ \A i \in 1..Len(q_result) :
              q_result[i][2] = query_score(q_result[i][1])
        /\ \A i, j \in 1..Len(q_result) :
              i < j => /\ q_result[i][2] >= q_result[j][2]
                       /\ q_result[i][1] # q_result[j][1]

\* two documents returned with the higher doc_id first, as its score is
\* higher, though the doc_ids were scored in ascending order
C16_Witness ==
    /\ q_pc = "answered"
    /\ q_call.order = "ascending"
    /\ Len(q_call.query_terms) = 2
    /\ Len(q_result) = 2
    /\ q_result[1][1] > q_result[2][1]
    /\ q_result[1][2] > q_result[2][2]

\* C17: for max_results >= 1, process_query returns min(max_results, number
\* of candidate documents) entries, and no candidate left out has a score
\* strictly higher than a returned one.
C17_TopK ==
    q_pc = "answered" /\ q_error = "none" /\ q_call.max_results >= 1 =>
        /\ Len(q_result)
               = Min(q_call.max_results, Cardinality(candidates))
        /\ Cardinality(returned(q_result)) = Len(q_result)
        /\ returned(q_result) \subseteq candidates
        /\ \A d \in candidates \ returned(q_result) :
              \A i \in 1..Len(q_result) : query_score(d) <= q_result[i][2]

\* three candidates and max_results 2: the document left out scores lower
\* than both of those returned, and was scored first
C17_Witness ==
    /\ q_pc = "answered"
    /\ q_call.query_type = "disjunctive"
    /\ q_call.order = "ascending"
    /\ q_call.max_results = 2
    /\ Cardinality(candidates) = 3
    /\ Len(q_result) = 2
    /\ 1 \notin returned(q_result)
    /\ query_score(1) < q_result[2][2]

\* C21: compute_score returns 0 without raising, for tfidf and for bm25,
\* whenever the DF of the term is 0 or missing from the Lexicon, or the
\* length of the document is 0 (a doc_id absent from the DocumentTable has
\* length 0).
C21_ZeroGuards ==
    s_pc = "scored"
        /\ (\/ get_term_info(qp_lexicon, s_call.term) \in {NoTermInfo, 0}
            \/ get_document_length(qp_document_table, s_call.doc_id) = 0)
        => s_result = Scored("none", 0)

\* C22: for a query of at least one token, process_query with a query_type
\* other than conjunctive/disjunctive or a method other than tfidf/bm25
\* fails with ValueError and returns no ranking, whether or not a document
\* matches the query.
C22_InvalidArgumentsRejected ==
    q_pc = "answered" /\ q_call.query_terms # <<>>
        /\ (q_call.query_type \notin QueryTypes \/ q_call.method \notin Methods)
        => q_error = "ValueError" /\ q_result = <<>>

\* C23: in every state reached by next_geq and reset calls, next_geq(target)
\* returns none exactly when no posting of the list has doc_id >= target
\* (always for the empty list, and for a target above the last doc_id), and
\* a call that returns none leaves the iterator state unchanged.
C23_NoneIffNothingQualifies ==
    /\ pl_last = "next_geq" =>
          (pl_returned = None
              <=> \A i \in 1..Len(pl_doc_ids) : pl_doc_ids[i] < pl_target)
    /\ \A target \in 0..(MaxDoc + 1) :
          LET r == next_geq(compressed_chunks, chunk_boundaries, Iter, target)
          IN r.returned = None =>
                /\ r.state = Iter
                /\ \A i \in 1..Len(pl_doc_ids) : pl_doc_ids[i] < target

\* after a call that moved the iterator to a later chunk, a call with a
\* target above the last doc_id returned none and left it there
C23_Witness ==
    /\ pl_last = "next_geq"
    /\ pl_returned = None
    /\ Len(pl_doc_ids) > 0
    /\ pl_target > pl_doc_ids[Len(pl_doc_ids)]
    /\ current_chunk_index > 0
    /\ pl_earlier > 0

\* C24: on a non-empty posting list, next_geq with a target smaller than the
\* first doc_id of the list returns the first posting of the list, whatever
\* next_geq calls were made before.
C24_BelowFirstGivesFirst ==
    pl_last = "next_geq" /\ Len(pl_doc_ids) > 0 /\ pl_target < pl_doc_ids[1]
        => pl_returned = Posting(pl_doc_ids[1], pl_frequencies[1])

\* C28: after reset() the iterator state is that of a freshly constructed
\* iterator over the same chunks (chunk 0, position 0, the first chunk
\* decoded, or empty buffers for an empty list), so every next_geq call
\* returns what it returns on a fresh iterator.
C28_ResetRestoresInitial ==
    pl_last = "reset" =>
        /\ Iter = PostingList_init(compressed_chunks)
        /\ \A target \in 0..(MaxDoc + 1) :
              next_geq(compressed_chunks, chunk_boundaries, Iter, target)
                  = next_geq(compressed_chunks, chunk_boundaries,
                             PostingList_init(compressed_chunks), target)

\* a reset after a call that had returned a posting of a later chunk
C28_Witness ==
    /\ pl_last = "reset"
    /\ Len(compressed_chunks) > 1
    /\ pl_returned # None
    /\ pl_returned.doc_id > chunk_boundaries[1][2]
    /\ current_chunk_index = 0

\* C29: in every state of a non-empty PostingList reached by next_geq and
\* reset calls, current_chunk_index is the index of a chunk, the cached
\* doc_ids and frequencies are the decoding of that chunk, and
\* current_posting_index is a position of the cached chunk.
C29_CacheCoherent ==
    Len(compressed_chunks) > 0 =>
        /\ 0 <= current_chunk_index
        /\ current_chunk_index < Len(compressed_chunks)
        /\ LET d == p_for_delta_decompress(
                        compressed_chunks[current_chunk_index + 1])
           IN /\ d.error = "none"
              /\ current_chunk_doc_ids = d.doc_ids
              /\ current_chunk_frequencies = d.frequencies
        /\ 0 <= current_posting_index
        /\ current_posting_index < Len(current_chunk_doc_ids)

\* the iterator inside the last chunk of three, after two calls
C29_Witness ==
    /\ pl_last = "next_geq"
    /\ Len(compressed_chunks) = 3
    /\ current_chunk_index = 2
    /\ pl_earlier > 0
    /\ current_chunk_doc_ids = <<pl_doc_ids[Len(pl_doc_ids)]>>

\* what holds at each point of merge_multiple_compressed_indices: in a round
\* every index but an odd last one is an input of exactly one pair merge;
\* the call returns the one index left (the loaded index itself for one
\* path); an empty path list raises and returns no index
TournamentPoints ==
    /\ mm_pc = "collect" =>
          /\ Len(indices) > 1
          /\ Len(futures) = Len(indices) \div 2
          /\ \A k \in 1..Len(futures) :
                futures[k] = _merge_two_indices(indices[2 * k - 1],
                                                indices[2 * k])
    /\ mm_pc = "done" =>
          /\ Len(index_paths) >= 1
          /\ Len(indices) = 1
          /\ mm_result = indices[1]
          /\ Len(index_paths) = 1 => mm_result = index_paths[1]
    /\ mm_pc = "ValueError" <=>
          (Len(index_paths) = 0 /\ mm_pc # "start")
    /\ mm_pc = "ValueError" => mm_result = EmptyIndex /\ indices = <<>>

\* the end of a round of m indexes: ceil(m / 2) indexes are left, the odd
\* last one unchanged, the others the results of the pair merges
RoundCloses ==
    mm_pc = "collect" /\ mm_pc' = "loop" =>
        /\ Len(indices') = (Len(indices) + 1) \div 2
        /\ Len(indices) % 2 = 1 =>
              indices'[Len(indices')] = indices[Len(indices)]
        /\ \A k \in 1..Len(futures) :
              \E j \in 1..Len(futures) : indices'[j] = futures[k]

\* C27: merge_multiple_compressed_indices proceeds in rounds; in a round of
\* m > 1 indexes every index is an input of exactly one pair merge, except
\* the last one when m is odd, which is carried unchanged; the round leaves
\* ceil(m / 2) indexes; the call always ends, with exactly one index (the
\* loaded one for n = 1), and with an error for an empty path list.
C27_TournamentTerminates ==
    /\ []TournamentPoints
    /\ [][RoundCloses]_vars
    /\ <>(mm_pc \in {"done", "ValueError"})

\* five indexes merged in three rounds
C27_Witness ==
    /\ mm_pc = "done"
    /\ Len(index_paths) = 5
    /\ Len(indices) = 1
    /\ mm_result # index_paths[5]

\* C30: after any sequence of get_total_docs, sample_lines, process_chunks and
\* process_single_chunk calls on one loader, get_total_docs returns the number
\* of documents of the collection file, and a process_chunks run that ends
\* has covered the whole collection.
C30_TotalDocsStable ==
    /\ ld_returned.call = "get_total_docs"
          => ld_returned.total = Len(collection)
    /\ ld_pc = "exhausted" => Flatten(ld_yielded) = Documents(collection)
    /\ ld_pc # "RuntimeError"

\* the result of a process_query call run alone on the artifacts as loaded
answer_alone(w) ==
    process_query(index_of(qp_postings, Terms), lexicon_of(qp_postings),
                  document_table_of(qp_postings), workers[w].query_terms,
                  workers[w].query_type, workers[w].method, MaxResults,
                  "ascending")

\* C25: process_query changes neither the CompressedInvertedIndex nor the
\* Lexicon nor the DocumentTable, also for terms and doc_ids that are not
\* present; whatever the interleaving of concurrent calls on the shared
\* artifacts, each call ends with the result it gets when run alone.
C25_QueriesLeaveArtifacts ==
    /\ qp_inverted_index = index_of(qp_postings, Terms)
    /\ qp_lexicon = lexicon_of(qp_postings)
    /\ qp_document_table = document_table_of(qp_postings)
    /\ \A w \in DOMAIN workers :
          workers[w].pc = "done" =>
              /\ workers[w].error = answer_alone(w).error
              /\ workers[w].result = answer_alone(w).result

\* both calls have ended, each overlapped with the other; one of them looked
\* up a term that no document holds and still matched documents
C25_Witness ==
    /\ \A w \in DOMAIN workers :
          workers[w].pc = "done" /\ workers[w].overlapped
    /\ DOMAIN workers # {}
    /\ workers[1].query_terms = <<"a", MissingTerm>>
    /\ workers[1].result # <<>>
    /\ workers[2].query_terms = <<"a", "bc">>
    /\ workers[2].method = "bm25"
    /\ workers[2].result # <<>>

\* C26: when processing one query of the suite fails, evaluate_all_queries
\* goes on with the remaining queries and combinations: it never ends with
\* the exception of a query, and every turn is taken.
C26_FailuresIsolated ==
    /\ ev_pc \in {"idle", "running", "returned"}
    /\ ev_pc = "returned" =>
          ev_next = 4 * Len(valid_queries(ev_queries, ev_qrels)) + 1

====
